---- MODULE Spec2Model ----
(***************************************************************************)
(* Topic-shift classification and session rotation of                      *)
(* openclaw-topic-shift-reset (src/src/index.ts, lines 1-1710).            *)
(*                                                                         *)
(* Numbers.  Every ratio of the source (similarity, novelty, score,        *)
(* thresholds) is held in millionths (Unit = 1.0); divisions round down.   *)
(* Thresholds are multiples of 1/1000 and the features are ratios of set   *)
(* sizes below 20, so no comparison of the source changes its outcome.     *)
(* Time is Date.now() in milliseconds.                                     *)
(***************************************************************************)
EXTENDS Integers, Sequences, FiniteSets, TLC

(***************************************************************************)
(* Bounds of the model                                                     *)
(***************************************************************************)
MaxEvents == 3
MaxClock == 60000

Slots == {1, 2}
TickSteps == {60000}

(***************************************************************************)
(* Program constants                                                       *)
(***************************************************************************)
Unit == 1000000
MAX_TRACKED_SESSIONS == 10000
STALE_SESSION_STATE_MS == 14400000
MAX_RECENT_FAST_EVENTS == 20000
FAST_EVENT_TTL_MS == 300000
ROTATION_DEDUPE_MS == 25000

NoTime == -1
NoSim == -2 * Unit
NoVector == <<>>
NoFile == "<none>"
EmptyMap == [x \in {} |-> 0]

(***************************************************************************)
(* Texts.  A text is a sequence of words; the table gives each word's      *)
(* length in characters and its lower-case form.                           *)
(***************************************************************************)
WordLen(w) ==
  CASE w = "alpha" -> 5 [] w = "beta" -> 4 [] w = "gamma" -> 5
    [] w = "delta" -> 5 [] w = "xray" -> 4 [] w = "XRAY" -> 4
    [] w = "yankee" -> 6 [] w = "zulu" -> 4 [] w = "ok" -> 2
    [] w = "/reset" -> 6 [] w = "kilo" -> 4 [] OTHER -> 1

Lower(w) ==
  CASE w = "XRAY" -> "xray" [] w = "K1" -> "k1" [] w = "K2" -> "k2"
    [] OTHER -> w

TBase == <<"alpha", "beta", "gamma">>
TNear == <<"alpha", "beta", "delta">>
TSoft == <<"alpha", "xray", "yankee">>
THard == <<"xray", "yankee", "zulu">>
THardUpper == <<"XRAY", "yankee", "zulu">>
TRepeat == <<"zulu", "zulu", "zulu", "zulu">>
\* against the baseline of TBase: novelty 4/7, below the soft novelty
\* threshold and above nine tenths of it
TMixed == <<"alpha", "beta", "gamma", "xray", "yankee", "zulu", "kilo">>
TLow == <<"ok">>
TCommand == <<"/reset", "alpha", "beta", "gamma">>

RECURSIVE SumSeq(_)
SumSeq(s) == IF s = <<>> THEN 0 ELSE Head(s) + SumSeq(Tail(s))

SeqToSet(s) == {s[i] : i \in DOMAIN s}

\* text.length: the words joined by single blanks
TextLength(text) ==
  IF text = <<>> THEN 0
  ELSE SumSeq([i \in DOMAIN text |-> WordLen(text[i])]) + (Len(text) - 1)

StartsWithSlash(text) == text # <<>> /\ Head(text) = "/reset"

Min(a, b) == IF a < b THEN a ELSE b
Max(a, b) == IF a > b THEN a ELSE b

(***************************************************************************)
(* Pure functions of the classifier                                        *)
(***************************************************************************)
normalizeTextForHash(text) == [i \in DOMAIN text |-> Lower(text[i])]

\* FNV-1a of the normalized text; the model keeps the normalized text
\* itself as the fingerprint (no two texts of the model collide).
hashString(normalized) == normalized

tokenizeList(text, minTokenLength) ==
  LET lowered == [i \in DOMAIN text |-> Lower(text[i])]
      isToken(w) == w # "/reset" /\ WordLen(w) >= minTokenLength
  IN SelectSeq(lowered, isToken)

Log2Micro(n) ==
  CASE n = 1 -> 0 [] n = 2 -> 1000000 [] n = 3 -> 1584962
    [] n = 4 -> 2000000 [] n = 5 -> 2321928 [] n = 6 -> 2584962
    [] n = 7 -> 2807354 [] n = 8 -> 3000000 [] OTHER -> 3169925

CountOf(tokens, t) == Cardinality({i \in DOMAIN tokens : tokens[i] = t})

RECURSIVE SumCountLog(_, _)
SumCountLog(tokens, distinct) ==
  IF distinct = {} THEN 0
  ELSE LET t == CHOOSE x \in distinct : TRUE
       IN CountOf(tokens, t) * Log2Micro(CountOf(tokens, t))
          + SumCountLog(tokens, distinct \ {t})

\* -sum p*log2(p) = log2(total) - (sum count*log2(count)) / total
tokenEntropy(tokens) ==
  IF Len(tokens) = 0 THEN 0
  ELSE Log2Micro(Len(tokens))
       - (SumCountLog(tokens, SeqToSet(tokens)) \div Len(tokens))

unionTokens(entries) == UNION {entries[i].tokens : i \in DOMAIN entries}

\* variant of jaccardSimilarity: the overlap is divided by the size of the
\* left set
jaccardOverLeft(left, right) ==
  IF left = {} /\ right = {} THEN Unit
  ELSE IF left = {} \/ right = {} THEN 0
  ELSE (Cardinality(left \cap right) * Unit) \div Cardinality(left)

jaccardSimilarity(left, right) ==
  IF left = {} /\ right = {} THEN Unit
  ELSE IF left = {} \/ right = {} THEN 0
  ELSE LET overlap == Cardinality(left \cap right)
           unionSize == Cardinality(left) + Cardinality(right) - overlap
       IN IF unionSize <= 0 THEN 0 ELSE (overlap * Unit) \div unionSize

noveltyRatio(current, baseline) ==
  IF current = {} THEN 0
  ELSE (Cardinality(current \ baseline) * Unit) \div Cardinality(current)

ISqrt(n) == CHOOSE r \in 0..n : r * r <= n /\ n < (r + 1) * (r + 1)

Dot(a, b) == SumSeq([i \in DOMAIN a |-> a[i] * b[i]])

\* The vectors of the model have integer norms, so the square root is exact.
cosineSimilarity(a, b) ==
  IF Len(a) = 0 \/ Len(b) = 0 \/ Len(a) # Len(b) THEN NoSim
  ELSE IF Dot(a, a) = 0 \/ Dot(b, b) = 0 THEN NoSim
  ELSE (Dot(a, b) * Unit) \div ISqrt(Dot(a, a) * Dot(b, b))

trimHistory(entries, limit) ==
  IF Len(entries) <= limit THEN entries
  ELSE SubSeq(entries, Len(entries) - limit + 1, Len(entries))

computeLexicalFeatures(c, tokens, tokenList, baselineTokens) ==
  LET lexicalSimilarity == jaccardSimilarity(tokens, baselineTokens)
      lexicalDistance == Unit - lexicalSimilarity
      novelty == noveltyRatio(tokens, baselineTokens)
      uniqueTokenRatio ==
        IF Len(tokenList) > 0
        THEN (Cardinality(tokens) * Unit) \div Len(tokenList) ELSE 0
      entropy == tokenEntropy(tokenList)
      base == (55 * lexicalDistance + 45 * novelty) \div 100
      uniqPenalty ==
        IF uniqueTokenRatio < c.minUniqueTokenRatio
        THEN ((c.minUniqueTokenRatio - uniqueTokenRatio) * 4) \div 10 ELSE 0
      shortPenalty ==
        IF Len(tokenList) <= c.shortMessageTokenLimit /\ entropy < c.minSignalEntropy
        THEN ((c.minSignalEntropy - entropy) * 6) \div 100 ELSE 0
      score == base - uniqPenalty - shortPenalty
  IN [score |-> Max(0, Min(Unit, score)),
      novelty |-> novelty,
      lexicalDistance |-> lexicalDistance,
      uniqueTokenRatio |-> uniqueTokenRatio,
      entropy |-> entropy]

\* variant of shouldRequestEmbedding: the warm-up is not looked at
shouldRequestEmbeddingInWarmup(c, backendAvailable, lexical, warmup, cooldownActive) ==
  IF ~backendAvailable \/ cooldownActive THEN FALSE
  ELSE IF lexical.score >= c.softScoreThreshold - c.embeddingTriggerMargin THEN TRUE
  ELSE /\ lexical.novelty * 10 >= c.softNoveltyThreshold * 9
       /\ lexical.lexicalDistance >= 350000

shouldRequestEmbedding(c, backendAvailable, lexical, warmup, cooldownActive) ==
  IF ~backendAvailable \/ warmup \/ cooldownActive THEN FALSE
  ELSE IF lexical.score >= c.softScoreThreshold - c.embeddingTriggerMargin THEN TRUE
  ELSE /\ lexical.novelty * 10 >= c.softNoveltyThreshold * 9
       /\ lexical.lexicalDistance >= 350000

CooldownActive(c, state, now) ==
  /\ c.cooldownMinutes * 60000 > 0
  /\ state.lastResetAt # NoTime
  /\ now - state.lastResetAt < c.cooldownMinutes * 60000

FusedScore(lexical, similarity, usedEmbedding) ==
  IF usedEmbedding /\ similarity # NoSim
  THEN (70 * (Unit - similarity) + 15 * lexical.lexicalDistance
        + 15 * lexical.novelty) \div 100
  ELSE lexical.score

\* variant of Decision: the hard signal is tested before the warm-up
DecisionHardBeforeWarmup(warmup, cooldownActive, hardSignal, softSignal, nextPending, required) ==
  IF hardSignal /\ ~cooldownActive
  THEN [kind |-> "rotate-hard", reason |-> "hard-threshold"]
  ELSE IF warmup THEN [kind |-> "warmup", reason |-> "warmup"]
  ELSE IF cooldownActive THEN [kind |-> "stable", reason |-> "cooldown"]
  ELSE IF ~softSignal THEN [kind |-> "stable", reason |-> "stable"]
  ELSE IF nextPending >= required
  THEN [kind |-> "rotate-soft", reason |-> "soft-confirmed"]
  ELSE [kind |-> "suspect", reason |-> "soft-suspect"]

\* variant of Decision: the soft confirmation is tested before the hard signal
DecisionSoftBeforeHard(warmup, cooldownActive, hardSignal, softSignal, nextPending, required) ==
  IF warmup THEN [kind |-> "warmup", reason |-> "warmup"]
  ELSE IF cooldownActive THEN [kind |-> "stable", reason |-> "cooldown"]
  ELSE IF softSignal /\ nextPending < required
  THEN [kind |-> "suspect", reason |-> "soft-suspect"]
  ELSE IF hardSignal THEN [kind |-> "rotate-hard", reason |-> "hard-threshold"]
  ELSE IF ~softSignal THEN [kind |-> "stable", reason |-> "stable"]
  ELSE [kind |-> "rotate-soft", reason |-> "soft-confirmed"]

\* variant of Decision: a hard signal goes through the soft confirmation
DecisionHardThroughSoft(warmup, cooldownActive, hardSignal, softSignal, nextPending, required) ==
  IF warmup THEN [kind |-> "warmup", reason |-> "warmup"]
  ELSE IF cooldownActive THEN [kind |-> "stable", reason |-> "cooldown"]
  ELSE IF ~hardSignal /\ ~softSignal THEN [kind |-> "stable", reason |-> "stable"]
  ELSE IF nextPending >= required
  THEN [kind |-> "rotate-soft", reason |-> "soft-confirmed"]
  ELSE [kind |-> "suspect", reason |-> "soft-suspect"]

\* classifyMessage: the order of its tests
Decision(warmup, cooldownActive, hardSignal, softSignal, nextPending, required) ==
  IF warmup THEN [kind |-> "warmup", reason |-> "warmup"]
  ELSE IF cooldownActive THEN [kind |-> "stable", reason |-> "cooldown"]
  ELSE IF hardSignal THEN [kind |-> "rotate-hard", reason |-> "hard-threshold"]
  ELSE IF ~softSignal THEN [kind |-> "stable", reason |-> "stable"]
  ELSE IF nextPending >= required
  THEN [kind |-> "rotate-soft", reason |-> "soft-confirmed"]
  ELSE [kind |-> "suspect", reason |-> "soft-suspect"]

classifyMessage(c, state, baselineTokenCount, lexical, similarity, usedEmbedding, now) ==
  LET score == FusedScore(lexical, similarity, usedEmbedding)
      metrics == [score |-> score,
                  novelty |-> lexical.novelty,
                  lexicalDistance |-> lexical.lexicalDistance,
                  similarity |-> similarity,
                  usedEmbedding |-> usedEmbedding,
                  pendingSoftSignals |-> state.pendingSoftSignals]
      warmup ==
        \/ Len(state.history) < c.minHistoryMessages
        \/ baselineTokenCount < c.minMeaningfulTokens
      hardSignal ==
        \/ score >= c.hardScoreThreshold
        \/ IF usedEmbedding /\ similarity # NoSim
           THEN /\ similarity <= c.hardSimilarityThreshold
                /\ lexical.novelty >= c.hardNoveltyThreshold
           ELSE /\ lexical.novelty >= c.hardNoveltyThreshold
                /\ lexical.lexicalDistance >= 650000
      softSignal ==
        \/ score >= c.softScoreThreshold
        \/ IF usedEmbedding /\ similarity # NoSim
           THEN /\ similarity <= c.softSimilarityThreshold
                /\ lexical.novelty >= c.softNoveltyThreshold
           ELSE /\ lexical.novelty >= c.softNoveltyThreshold
                /\ lexical.lexicalDistance >= 450000
      decision ==
        Decision(warmup, CooldownActive(c, state, now), hardSignal, softSignal,
                 state.pendingSoftSignals + 1, c.softConsecutiveSignals)
  IN [kind |-> decision.kind, reason |-> decision.reason, metrics |-> metrics]

\* topicCentroid holds topicCount times the running mean (the component
\* sums), which keeps the mean exact; the cosine is unchanged by the scale.
seedTopicCentroid(state, vector) ==
  IF Len(vector) = 0
  THEN [state EXCEPT !.topicCentroid = NoVector, !.topicCount = 0, !.topicDim = 0]
  ELSE [state EXCEPT !.topicCentroid = vector, !.topicCount = 1,
                     !.topicDim = Len(vector)]

updateTopicCentroid(state, vector) ==
  IF Len(vector) = 0 THEN state
  ELSE IF Len(state.topicCentroid) = 0
          \/ Len(state.topicCentroid) # Len(vector)
          \/ state.topicCount = 0
  THEN seedTopicCentroid(state, vector)
  ELSE [state EXCEPT
          !.topicCentroid = [i \in DOMAIN vector |-> state.topicCentroid[i] + vector[i]],
          !.topicCount = state.topicCount + 1,
          !.topicDim = Len(vector)]

RECURSIVE UpdateCentroidAll(_, _)
UpdateCentroidAll(state, items) ==
  IF items = <<>> THEN state
  ELSE UpdateCentroidAll(updateTopicCentroid(state, Head(items).embedding), Tail(items))

\* variant of findStoreKey: without a match it falls back to some entry
findStoreKeyAnyEntry(registry, sessionKey) ==
  IF sessionKey \in DOMAIN registry THEN sessionKey
  ELSE IF \E k \in DOMAIN registry : Lower(k) = Lower(sessionKey)
  THEN CHOOSE k \in DOMAIN registry : Lower(k) = Lower(sessionKey)
  ELSE IF DOMAIN registry # {} THEN CHOOSE k \in DOMAIN registry : TRUE
  ELSE ""

findStoreKey(registry, sessionKey) ==
  IF sessionKey \in DOMAIN registry THEN sessionKey
  ELSE IF \E k \in DOMAIN registry : Lower(k) = Lower(sessionKey)
  THEN CHOOSE k \in DOMAIN registry : Lower(k) = Lower(sessionKey)
  ELSE ""


normalizeProviderId(raw) ==
  CASE raw = "" -> ""
    [] raw = "telegram" -> "telegram"
    [] raw = "telegram-bot" -> "telegram"
    [] raw = "webchat" -> "web"
    [] OTHER -> raw

pruneRecentMap(map, now, ttlMs, maxSize) ==
  LET fresh == {k \in DOMAIN map : ~(now - map[k] > ttlMs)}
      toDrop == Cardinality(fresh) - maxSize
      dropped ==
        IF toDrop <= 0 THEN {}
        ELSE CHOOSE D \in SUBSET fresh :
               /\ Cardinality(D) = toDrop
               /\ \A d \in D, r \in fresh \ D : map[d] <= map[r]
  IN [k \in fresh \ dropped |-> map[k]]

pruneStateMaps(stateBySession, now) ==
  LET fresh == {k \in DOMAIN stateBySession :
                  ~(now - stateBySession[k].lastSeenAt > STALE_SESSION_STATE_MS)}
      toDrop == Cardinality(fresh) - MAX_TRACKED_SESSIONS
      dropped ==
        IF toDrop <= 0 THEN {}
        ELSE CHOOSE D \in SUBSET fresh :
               /\ Cardinality(D) = toDrop
               /\ \A d \in D, r \in fresh \ D :
                    stateBySession[d].lastSeenAt <= stateBySession[r].lastSeenAt
  IN [k \in fresh \ dropped |-> stateBySession[k]]

MapSet(map, key, value) ==
  [k \in DOMAIN map \cup {key} |-> IF k = key THEN value ELSE map[k]]

(***************************************************************************)
(* Configurations (values resolveConfig can return) and inputs             *)
(***************************************************************************)
BaseConfig ==
  [enabled |-> TRUE,
   historyWindow |-> 2,
   minHistoryMessages |-> 1,
   minMeaningfulTokens |-> 2,
   minTokenLength |-> 2,
   minSignalChars |-> 10,
   minSignalTokenCount |-> 3,
   minSignalEntropy |-> 1200000,
   minUniqueTokenRatio |-> 340000,
   shortMessageTokenLimit |-> 6,
   embeddingTriggerMargin |-> 80000,
   softConsecutiveSignals |-> 2,
   cooldownMinutes |-> 1,
   ignoredProviders |-> {},
   softScoreThreshold |-> 720000,
   hardScoreThreshold |-> 860000,
   softSimilarityThreshold |-> 360000,
   hardSimilarityThreshold |-> 240000,
   softNoveltyThreshold |-> 580000,
   hardNoveltyThreshold |-> 740000,
   handoffMode |-> "summary",
   backendAvailable |-> FALSE,
   dryRun |-> FALSE]

SessionKeys == {"k1", "k2", "ka"}

\* resolveAgentRoute: the peer a1 is served by the agent alpha
Route(peer) ==
  IF peer = "u1" THEN "k1" ELSE IF peer = "a1" THEN "ka" ELSE "k2"

RouteAgent(peer) == IF peer = "a1" THEN "alpha" ELSE "main"

\* the agent a session key belongs to, the one the router returned with it
AgentOfSession(sessionKey) == IF sessionKey = "ka" THEN "alpha" ELSE "main"

MainStorePath == "agents/main/sessions/sessions.json"

AlphaStorePath == "agents/alpha/sessions/sessions.json"

\* runtime.channel.session.resolveStorePath of a multi-agent host; without
\* an agentId it names the registry of the default agent
resolveStorePath(agentId) ==
  IF agentId = "alpha" THEN AlphaStorePath ELSE MainStorePath

InitialEntry(id, file, label) ==
  [sessionId |-> id, updatedAt |-> 0, systemSent |-> TRUE,
   abortedLastRun |-> TRUE, inputTokens |-> 7, outputTokens |-> 5,
   totalTokens |-> 12, totalTokensFresh |-> FALSE,
   sessionFile |-> file, label |-> label]

RegistryFull ==
  [k \in {"k1", "K2", "k3"} |->
     CASE k = "k1" -> InitialEntry(-1, "k1.jsonl", "work")
       [] k = "K2" -> InitialEntry(-2, NoFile, "home")
       [] OTHER -> InitialEntry(-3, "k3.jsonl", "other")]

\* the entry of k1 is stored under a key that differs in case
RegistryUpperK1 ==
  [k \in {"K1", "k3"} |->
     IF k = "K1" THEN RegistryFull["k1"] ELSE RegistryFull[k]]

RegistryWithoutK1 ==
  [k \in {"K2", "k3"} |-> RegistryFull[k]]

\* the registry of the agent alpha
RegistryAlpha ==
  [k \in {"ka"} |-> InitialEntry(-4, "ka.jsonl", "alpha")]

\* the registry file does not exist: readJsonFileWithFallback yields {}
RegistryMissing == EmptyMap

EmbedVectors == {<<1>>, <<-1>>}

FastEvent(peer, text) ==
  [hook |-> "message_received", peer |-> peer, sessionKey |-> "",
   text |-> text, provider |-> "telegram", routeOk |-> TRUE, agentId |-> ""]

FallbackEvent(key, text, provider) ==
  [hook |-> "before_model_resolve", peer |-> "", sessionKey |-> key,
   text |-> text, provider |-> provider, routeOk |-> TRUE, agentId |-> "main"]

MainInputs ==
  {FastEvent("u1", t) : t \in {TBase, TNear, TSoft, THard}}
  \cup {FallbackEvent("k1", t, "telegram") : t \in {TSoft, THardUpper}}

EmbeddingInputs ==
  {FastEvent("u1", t) : t \in {TBase, TSoft, THard}}
  \cup {FallbackEvent("k1", THardUpper, "telegram")}

WarmupInputs ==
  {FastEvent("u1", t) : t \in {TBase, THard, TRepeat}}

\* a host with two agents: the messages of peer a1 belong to alpha
MultiAgentInputs ==
  {FastEvent("a1", t) : t \in {TBase, THard}}
  \cup {[FallbackEvent("ka", THardUpper, "telegram") EXCEPT !.agentId = "alpha"]}

\* the backend is configured and every call of embed throws or times out
EmbedFailsInputs ==
  {FastEvent("u1", t) : t \in {TBase, TMixed, TSoft, THard}}

\* two peers whose sessions k1 and k2 have their entries in one registry file
TwoSessionInputs ==
  {FastEvent(p, t) : p \in {"u1", "u2"}, t \in {TBase, THard}}

\* turns that the host starts itself: a cron reminder, a heartbeat
InternalProviderInputs ==
  {[FastEvent("u1", t) EXCEPT !.provider = "cron-event"] : t \in {TBase, THard}}
  \cup {FallbackEvent("k1", THardUpper, "heartbeat")}

Scenario(c, registry, events) ==
  [cfg |-> c, store |-> registry, alphaStore |-> RegistryMissing,
   inputs |-> events]

MultiAgentScenario ==
  [cfg |-> BaseConfig, store |-> RegistryMissing, alphaStore |-> RegistryAlpha,
   inputs |-> MultiAgentInputs]

MainScenarios ==
  {Scenario(BaseConfig, RegistryFull, MainInputs),
   Scenario(BaseConfig, RegistryWithoutK1, MainInputs),
   Scenario([BaseConfig EXCEPT !.dryRun = TRUE], RegistryFull, MainInputs),
   Scenario([BaseConfig EXCEPT !.backendAvailable = TRUE, !.cooldownMinutes = 0],
            RegistryFull, EmbeddingInputs),
   Scenario([BaseConfig EXCEPT !.softConsecutiveSignals = 1,
                               !.handoffMode = "none"],
            RegistryUpperK1, MainInputs),
   Scenario([BaseConfig EXCEPT !.minHistoryMessages = 2],
            RegistryFull, WarmupInputs),
   MultiAgentScenario,
   Scenario(BaseConfig, RegistryFull, InternalProviderInputs),
   Scenario([BaseConfig EXCEPT !.ignoredProviders = {"cron-event", "heartbeat"}],
            RegistryFull, InternalProviderInputs)}

(***************************************************************************)
(* State                                                                   *)
(***************************************************************************)
VARIABLES
  cfg,                      \* ResolvedConfig of register()
  inputs,                   \* the events the host may deliver
  lockExclusive,            \* withFileLock excludes (SDK) or only counts (test stub)
  clock,                    \* Date.now()
  sessionState,             \* Map<string, SessionState>
  recentFastEvents,         \* Map<string, number>
  recentRotationBySession,  \* Map<string, number>
  store,                    \* the session registry file of the default agent
  alphaStore,               \* the session registry file of the agent alpha
  lockHolder,               \* handler holding the file lock, 0 if free
  handlers,                 \* handlers in flight, one per slot
  uuidCounter,              \* randomUUID()
  evCount,                  \* events delivered so far
  writes,                   \* registry writes so far (observation only)
  enqueued,                 \* handoff events passed to enqueueSystemEvent
  lastClass,                \* the latest classification (observation only)
  lastRotate,               \* the latest return of rotateSessionEntry (observation only)
  suspectRun,               \* per session: suspect decisions since the last other decision
  pureArgs,                 \* the arguments of a call of a pure function
  pureResult,               \* what the call returned
  softSuspect,              \* the softSuspect section of the configuration
  persisted,                \* the persisted snapshot found at startup
  runtime,                  \* the state the documented hooks keep for a session
  lastHook                  \* the latest documented hook and what it returned

\* the variables of the parts that are followed apart from the hooks
pureVars == <<pureArgs, pureResult>>

runtimeVars == <<softSuspect, persisted, runtime, lastHook>>

sideVars == <<pureVars, runtimeVars>>

\* the variables the hooks read and write
hookVars ==
  <<cfg, inputs, lockExclusive, clock, sessionState, recentFastEvents,
    recentRotationBySession, store, alphaStore, lockHolder, handlers, uuidCounter,
    evCount, writes, enqueued, lastClass, lastRotate, suspectRun>>

vars == <<hookVars, sideVars>>

NewState(now) ==
  [history |-> <<>>, pendingSoftSignals |-> 0, pendingEntries |-> <<>>,
   lastResetAt |-> NoTime, topicCentroid |-> NoVector, topicCount |-> 0,
   topicDim |-> 0, lastSeenAt |-> now]

NoLexical ==
  [score |-> 0, novelty |-> 0, lexicalDistance |-> 0,
   uniqueTokenRatio |-> 0, entropy |-> 0]

NoEntry == [tokens |-> {}, embedding |-> NoVector, at |-> NoTime]

IdleHandler ==
  [pc |-> "idle", id |-> 0, sessionKey |-> "", source |-> "", agentId |-> "",
   contentHash |-> <<>>, now |-> 0, tokens |-> {}, lexical |-> NoLexical,
   baselineTokens |-> {}, entry |-> NoEntry, kind |-> "",
   loaded |-> EmptyMap, storeKey |-> "", previousEntry |-> EmptyMap,
   tokenList |-> <<>>, writesSeen |-> 0, storePath |-> "", provider |-> "",
   chars |-> 0]

NoClass ==
  [id |-> 0, sessionKey |-> "", kind |-> "", reason |-> "",
   score |-> 0, novelty |-> 0, lexicalDistance |-> 0, similarity |-> NoSim,
   historyLen |-> 0, baselineTokenCount |-> 0, cooldown |-> FALSE,
   pendingBefore |-> 0, suspectsBefore |-> 0, writesBefore |-> 0,
   at |-> 0, entry |-> NoEntry, source |-> "", provider |-> "",
   chars |-> 0, tokenCount |-> 0, entropy |-> 0]

\* rotateSessionEntry has not been called
NoRotate ==
  [id |-> 0, sessionKey |-> "", returned |-> FALSE, threw |-> FALSE,
   transcript |-> ""]

\* variant of RotateOutcome: rotateSessionEntry returns true whenever it
\* does not throw
RotateOutcomeNeverFalse(h, returned, threw, transcript) ==
  [id |-> h.id, sessionKey |-> h.sessionKey, returned |-> ~threw,
   threw |-> threw, transcript |-> transcript]

\* what a call of rotateSessionEntry by handler h ended with
RotateOutcome(h, returned, threw, transcript) ==
  [id |-> h.id, sessionKey |-> h.sessionKey, returned |-> returned,
   threw |-> threw, transcript |-> transcript]

\* the state the documented hooks keep for one session: before_prompt_build,
\* message_sent and the persisted snapshot
NoTicket == [createdAt |-> 0, expiresAt |-> 0, injected |-> FALSE, armed |-> FALSE]

EmptyRuntime ==
  [loaded |-> FALSE, warned |-> FALSE, historyLen |-> 0,
   pendingSoftSignals |-> 0, pendingSteer |-> NoTicket,
   recentRotations |-> 0, sessionId |-> 0, now |-> 0, events |-> 0]

NoSoftSuspect == [action |-> "none", mode |-> "best_effort", ttl |-> 0]

NoSnapshot ==
  [present |-> FALSE, version |-> 0, historyLen |-> 0,
   pendingSoftSignals |-> 0, recentRotations |-> 0]

NoHook ==
  [seq |-> 0, hook |-> "", decision |-> "", prepend |-> "", success |-> FALSE,
   signal |-> ""]

\* the documented hooks are not followed
RuntimeUnused ==
  /\ softSuspect = NoSoftSuspect /\ persisted = NoSnapshot
  /\ runtime = EmptyRuntime /\ lastHook = NoHook

\* no pure function is being called
NoResult == [fn |-> "", value |-> 0]

NoPureCall == pureArgs = <<>> /\ pureResult = NoResult

InitHooks(sc) ==
  /\ cfg = sc.cfg /\ inputs = sc.inputs
  /\ store = sc.store /\ alphaStore = sc.alphaStore
  /\ clock = 0
  /\ sessionState = EmptyMap
  /\ recentFastEvents = EmptyMap
  /\ recentRotationBySession = EmptyMap
  /\ lockHolder = 0
  /\ handlers = [s \in Slots |-> IdleHandler]
  /\ uuidCounter = 0
  /\ evCount = 0
  /\ writes = <<>>
  /\ enqueued = {}
  /\ lastClass = NoClass
  /\ lastRotate = NoRotate
  /\ suspectRun = EmptyMap

InitWith(sc) ==
  /\ NoPureCall
  /\ RuntimeUnused
  /\ InitHooks(sc)

InitCommon == \E sc \in MainScenarios : InitWith(sc)

Init == InitCommon /\ lockExclusive = TRUE

InitEmbedFails ==
  /\ InitWith(Scenario([BaseConfig EXCEPT !.backendAvailable = TRUE],
                       RegistryFull, EmbedFailsInputs))
  /\ lockExclusive = TRUE

InitTestLock == InitCommon /\ lockExclusive = FALSE

StateOf(key, now) ==
  IF key \in DOMAIN sessionState THEN sessionState[key] ELSE NewState(now)

SuspectRunOf(key) ==
  IF key \in DOMAIN suspectRun THEN suspectRun[key] ELSE 0


\* strip rules: the words of dropped envelope lines are marked "<envelope>"
stripClassifierEnvelope(text) ==
  SelectSeq(text, LAMBDA w : w # "<envelope>")

Idle(s) == handlers' = [handlers EXCEPT ![s] = IdleHandler]

\* variant of RotatedEntry: the transcript pointer is kept
RotatedEntryKeepingFile(current, uuid, now) ==
  [current EXCEPT !.sessionId = uuid,
                  !.updatedAt = now,
                  !.systemSent = FALSE,
                  !.abortedLastRun = FALSE,
                  !.inputTokens = 0,
                  !.outputTokens = 0,
                  !.totalTokens = 0,
                  !.totalTokensFresh = TRUE]

\* variant of RotatedEntry: the entry is built anew, not spread from the old
RotatedEntryBuiltAnew(current, uuid, now) ==
  [sessionId |-> uuid, updatedAt |-> now, systemSent |-> FALSE,
   abortedLastRun |-> FALSE, inputTokens |-> 0, outputTokens |-> 0,
   totalTokens |-> 0, totalTokensFresh |-> TRUE,
   sessionFile |-> NoFile, label |-> ""]

\* rotateSessionEntry: the matching entry with identity and counters replaced
RotatedEntry(current, uuid, now) ==
  [current EXCEPT !.sessionId = uuid,
                  !.updatedAt = now,
                  !.systemSent = FALSE,
                  !.abortedLastRun = FALSE,
                  !.inputTokens = 0,
                  !.outputTokens = 0,
                  !.totalTokens = 0,
                  !.totalTokensFresh = TRUE,
                  !.sessionFile = NoFile]

\* variant of ResetState: the entry's embedding is added to the running
\* centroid
ResetStateKeepingCentroid(c, state, entry, now) ==
  updateTopicCentroid(
    [state EXCEPT !.lastResetAt = now,
                  !.pendingSoftSignals = 0,
                  !.pendingEntries = <<>>,
                  !.history = trimHistory(<<entry>>, c.historyWindow)],
    entry.embedding)

\* rotateSessionEntry, after the handoff: the in-memory reset
ResetState(c, state, entry, now) ==
  seedTopicCentroid(
    [state EXCEPT !.lastResetAt = now,
                  !.pendingSoftSignals = 0,
                  !.pendingEntries = <<>>,
                  !.history = trimHistory(<<entry>>, c.historyWindow)],
    entry.embedding)

WarmupUpdate(c, state, entry) ==
  updateTopicCentroid(
    [state EXCEPT !.pendingSoftSignals = 0,
                  !.pendingEntries = <<>>,
                  !.history = trimHistory(Append(state.history, entry), c.historyWindow)],
    entry.embedding)

\* variant of StableUpdate: the buffered suspect entries are dropped instead
\* of merged
StableUpdateDroppingPending(c, state, entry) ==
  LET withCentroid == UpdateCentroidAll(state, <<entry>>)
  IN [withCentroid EXCEPT !.pendingSoftSignals = 0,
                          !.pendingEntries = <<>>,
                          !.history = trimHistory(Append(state.history, entry),
                                                  c.historyWindow)]

StableUpdate(c, state, entry) ==
  LET merged == state.history \o state.pendingEntries \o <<entry>>
      withCentroid == UpdateCentroidAll(state, Append(state.pendingEntries, entry))
  IN [withCentroid EXCEPT !.pendingSoftSignals = 0,
                          !.pendingEntries = <<>>,
                          !.history = trimHistory(merged, c.historyWindow)]

\* variant of SuspectUpdate: the entry is committed to history as well
SuspectUpdateIntoHistory(c, state, entry) ==
  [state EXCEPT !.pendingSoftSignals = state.pendingSoftSignals + 1,
                !.pendingEntries =
                   trimHistory(Append(state.pendingEntries, entry),
                               c.softConsecutiveSignals),
                !.history = trimHistory(Append(state.history, entry),
                                        c.historyWindow)]

\* variant of SuspectUpdate: the soft-signal counter is not advanced with
\* the buffer
SuspectUpdateKeepingCount(c, state, entry) ==
  [state EXCEPT !.pendingEntries =
                   trimHistory(Append(state.pendingEntries, entry),
                               c.softConsecutiveSignals)]

SuspectUpdate(c, state, entry) ==
  [state EXCEPT !.pendingSoftSignals = state.pendingSoftSignals + 1,
                !.pendingEntries =
                   trimHistory(Append(state.pendingEntries, entry),
                               c.softConsecutiveSignals)]

\* variant of DryRunReturnsEarly: a dry run goes on to the registry
DryRunFallsThrough(c) == FALSE

\* rotateSessionEntry: a dry run logs would-rotate and returns before the lock
DryRunReturnsEarly(c) == c.dryRun

\* classifyAndMaybeRotate from the similarity (line 1545) to the first
\* await of the rotation
Classify(s, h, st, embedding) ==
  LET entry == [tokens |-> h.tokens, embedding |-> embedding, at |-> h.now]
      similarity ==
        IF embedding # NoVector /\ st.topicCentroid # NoVector
        THEN cosineSimilarity(embedding, st.topicCentroid) ELSE NoSim
      decision ==
        classifyMessage(cfg, st, Cardinality(h.baselineTokens), h.lexical, similarity,
                        similarity # NoSim, h.now)
      key == h.sessionKey
  IN /\ lastClass' =
          [id |-> h.id, sessionKey |-> key, kind |-> decision.kind,
           reason |-> decision.reason, score |-> decision.metrics.score,
           novelty |-> decision.metrics.novelty,
           lexicalDistance |-> decision.metrics.lexicalDistance,
           similarity |-> similarity,
           historyLen |-> Len(st.history),
           baselineTokenCount |-> Cardinality(h.baselineTokens),
           cooldown |-> CooldownActive(cfg, st, h.now),
           pendingBefore |-> st.pendingSoftSignals,
           suspectsBefore |-> SuspectRunOf(key),
           writesBefore |-> Len(writes),
           at |-> h.now, entry |-> entry, source |-> h.source,
           provider |-> h.provider, chars |-> h.chars,
           tokenCount |-> Len(h.tokenList), entropy |-> h.lexical.entropy]
     /\ suspectRun' =
          MapSet(suspectRun, key,
                 IF decision.kind = "suspect" THEN SuspectRunOf(key) + 1 ELSE 0)
     /\ IF decision.kind = "warmup"
        THEN /\ sessionState' =
                  pruneStateMaps(MapSet(sessionState, key, WarmupUpdate(cfg, st, entry)), clock)
             /\ Idle(s)
             /\ UNCHANGED <<recentRotationBySession, lastRotate>>
        ELSE IF decision.kind = "stable"
        THEN /\ sessionState' =
                  pruneStateMaps(MapSet(sessionState, key, StableUpdate(cfg, st, entry)), clock)
             /\ Idle(s)
             /\ UNCHANGED <<recentRotationBySession, lastRotate>>
        ELSE IF decision.kind = "suspect"
        THEN /\ sessionState' =
                  pruneStateMaps(MapSet(sessionState, key, SuspectUpdate(cfg, st, entry)), clock)
             /\ Idle(s)
             /\ UNCHANGED <<recentRotationBySession, lastRotate>>
        ELSE IF DryRunReturnsEarly(cfg)
        THEN \* rotateSessionEntry logs would-rotate and returns true
             /\ lastRotate' = RotateOutcome(h, TRUE, FALSE, "")
             /\ sessionState' = pruneStateMaps(MapSet(sessionState, key, st), clock)
             /\ recentRotationBySession' =
                  pruneRecentMap(recentRotationBySession, clock,
                                 ROTATION_DEDUPE_MS * 3, MAX_RECENT_FAST_EVENTS)
             /\ Idle(s)
        ELSE \* rotateSessionEntry calls withFileLock
             /\ sessionState' = MapSet(sessionState, key, st)
             /\ handlers' = [handlers EXCEPT ![s] =
                  [h EXCEPT !.pc = "lockWait", !.entry = entry,
                            !.kind = decision.kind]]
             /\ UNCHANGED <<recentRotationBySession, lastRotate>>

Skip(s) ==
  UNCHANGED <<sessionState, recentRotationBySession, handlers, lastClass,
              lastRotate, suspectRun>>

classifyAndMaybeRotate(s, source, sessionKey, rawText, messageProvider, agentId) ==
  LET provider == normalizeProviderId(messageProvider)
      text == stripClassifierEnvelope(rawText)
      tokenList == tokenizeList(text, cfg.minTokenLength)
      tokens == SeqToSet(tokenList)
      contentHash == hashString(normalizeTextForHash(text))
      dedupeKey == <<sessionKey, contentHash>>
      deduped ==
        /\ dedupeKey \in DOMAIN recentRotationBySession
        /\ clock - recentRotationBySession[dedupeKey] < ROTATION_DEDUPE_MS
      now == clock
      state == [StateOf(sessionKey, now) EXCEPT !.lastSeenAt = now]
      baselineTokens == unionTokens(state.history)
      lexical == computeLexicalFeatures(cfg, tokens, tokenList, baselineTokens)
      warmup ==
        \/ Len(state.history) < cfg.minHistoryMessages
        \/ Cardinality(baselineTokens) < cfg.minMeaningfulTokens
      cooldownActive == CooldownActive(cfg, state, now)
      h == [IdleHandler EXCEPT !.id = evCount + 1, !.sessionKey = sessionKey,
                               !.source = source, !.agentId = agentId,
                               !.contentHash = contentHash, !.now = now,
                               !.tokens = tokens, !.lexical = lexical,
                               !.baselineTokens = baselineTokens,
                               !.tokenList = tokenList,
                               !.writesSeen = Len(writes),
                               !.storePath = resolveStorePath(agentId),
                               !.provider = provider,
                               !.chars = TextLength(text)]
  IN IF \/ ~cfg.enabled
        \/ sessionKey = ""
        \/ (provider # "" /\ provider \in cfg.ignoredProviders)
        \/ text = <<>>
        \/ StartsWithSlash(text)
        \/ TextLength(text) < cfg.minSignalChars
        \/ Len(tokenList) < cfg.minSignalTokenCount
        \/ deduped
     THEN Skip(s)
     ELSE IF /\ shouldRequestEmbedding(cfg, cfg.backendAvailable, lexical,
                                       warmup, cooldownActive)
             /\ cfg.backendAvailable
     THEN \* await embeddingBackend.embed(text)
          /\ handlers' = [handlers EXCEPT ![s] = [h EXCEPT !.pc = "embed"]]
          /\ sessionState' =
               IF sessionKey \in DOMAIN sessionState
               THEN MapSet(sessionState, sessionKey, state) ELSE sessionState
          /\ UNCHANGED <<recentRotationBySession, lastClass, lastRotate, suspectRun>>
     ELSE Classify(s, h, state, NoVector)

MessageReceived(s, ev) ==
  LET fastEventKey ==
        <<ev.provider, ev.peer, hashString(normalizeTextForHash(ev.text))>>
      seen ==
        /\ fastEventKey \in DOMAIN recentFastEvents
        /\ clock - recentFastEvents[fastEventKey] < FAST_EVENT_TTL_MS
  IN IF ~cfg.enabled \/ ev.provider = "" \/ ev.text = <<>> \/ seen
     THEN Skip(s) /\ UNCHANGED recentFastEvents
     ELSE /\ recentFastEvents' =
               pruneRecentMap(MapSet(recentFastEvents, fastEventKey, clock),
                              clock, FAST_EVENT_TTL_MS, MAX_RECENT_FAST_EVENTS)
          /\ IF ~ev.routeOk
             THEN Skip(s)
             ELSE classifyAndMaybeRotate(s, "fast", Route(ev.peer), ev.text,
                                         ev.provider, "")

BeforeModelResolve(s, ev) ==
  /\ UNCHANGED recentFastEvents
  /\ IF ~cfg.enabled \/ ev.sessionKey = ""
     THEN Skip(s)
     ELSE classifyAndMaybeRotate(s, "fallback", ev.sessionKey, ev.text,
                                 ev.provider, ev.agentId)

\* A dry run never suspends (it calls neither the lock nor the backend), so
\* its runs are followed for one event more; so are the runs of two
\* sessions, which take two events for each session to rotate.
EventBudget ==
  IF cfg.dryRun \/ inputs = TwoSessionInputs THEN MaxEvents + 1 ELSE MaxEvents

(***************************************************************************)
(* Actions                                                                 *)
(***************************************************************************)
\* a hook is invoked and runs to its first await (or to its end)
Start(s, ev) ==
  /\ handlers[s].pc = "idle"
  /\ \A t \in Slots : t < s => handlers[t].pc # "idle"
  /\ evCount < EventBudget
  /\ evCount' = evCount + 1
  /\ IF ev.hook = "message_received"
     THEN MessageReceived(s, ev) ELSE BeforeModelResolve(s, ev)
  /\ UNCHANGED <<cfg, inputs, lockExclusive, clock, store, alphaStore, lockHolder,
                 uuidCounter, writes, enqueued>>
  /\ UNCHANGED sideVars

\* embeddingBackend.embed settles: a vector, or null / an exception
EmbedReturn(s, vector) ==
  /\ handlers[s].pc = "embed"
  /\ Classify(s, handlers[s],
              StateOf(handlers[s].sessionKey, handlers[s].now), vector)
  /\ UNCHANGED <<cfg, inputs, lockExclusive, clock, recentFastEvents, store,
                 alphaStore, lockHolder, uuidCounter, evCount, writes, enqueued>>
  /\ UNCHANGED sideVars

\* the content of the registry file at a path
FileAt(path) == IF path = AlphaStorePath THEN alphaStore ELSE store

\* variant of LockGranted: the callback does not wait for the lock
LockGrantedAtOnce(s) == TRUE

\* withFileLock runs the callback of s once no other callback holds the lock
LockGranted(s) == lockExclusive => lockHolder = 0

\* withFileLock grants the lock; the callback reads the registry and
\* prepares the rotated entry
ReadStore(s) ==
  LET h == handlers[s]
      file == FileAt(h.storePath)
      storeKey == findStoreKey(file, h.sessionKey)
  IN /\ h.pc = "lockWait"
     /\ LockGranted(s)
     /\ IF storeKey = ""
        THEN \* no entry: the callback returns, rotateSessionEntry returns false
             /\ UNCHANGED lockHolder
             /\ lastRotate' = RotateOutcome(h, FALSE, FALSE, "")
             /\ sessionState' =
                  pruneStateMaps(MapSet(sessionState, h.sessionKey,
                                        StateOf(h.sessionKey, h.now)), clock)
             /\ recentRotationBySession' =
                  pruneRecentMap(recentRotationBySession, clock,
                                 ROTATION_DEDUPE_MS * 3, MAX_RECENT_FAST_EVENTS)
             /\ Idle(s)
             /\ UNCHANGED uuidCounter
        ELSE /\ uuidCounter' = uuidCounter + 1
             /\ handlers' = [handlers EXCEPT ![s] =
                  [h EXCEPT !.pc = "write",
                            !.storeKey = storeKey,
                            !.previousEntry = file[storeKey],
                            !.loaded = [file EXCEPT ![storeKey] =
                               RotatedEntry(file[storeKey], uuidCounter + 1, clock)]]]
             /\ lockHolder' = IF lockExclusive THEN s ELSE lockHolder
             /\ UNCHANGED <<sessionState, recentRotationBySession, lastRotate>>
     /\ UNCHANGED <<cfg, inputs, lockExclusive, clock, recentFastEvents, store,
                    alphaStore, evCount, writes, enqueued, lastClass, suspectRun>>
     /\ UNCHANGED sideVars

\* writeJsonFileAtomically replaces the file; the lock is released
WriteStore(s) ==
  LET h == handlers[s]
  IN /\ h.pc = "write"
     /\ IF h.storePath = AlphaStorePath
        THEN alphaStore' = h.loaded /\ UNCHANGED store
        ELSE store' = h.loaded /\ UNCHANGED alphaStore
     /\ writes' = Append(writes, [id |-> h.id, sessionKey |-> h.sessionKey,
                                  storeKey |-> h.storeKey, at |-> clock,
                                  contentHash |-> h.contentHash,
                                  observedAt |-> h.now,
                                  writesSeen |-> h.writesSeen,
                                  storePath |-> h.storePath])
     /\ lockHolder' = IF lockExclusive THEN 0 ELSE lockHolder
     /\ handlers' = [handlers EXCEPT ![s].pc = "handoff"]
     /\ UNCHANGED <<cfg, inputs, lockExclusive, clock, sessionState, recentFastEvents,
                    recentRotationBySession, uuidCounter, evCount, enqueued,
                    lastClass, lastRotate, suspectRun>>
     /\ UNCHANGED sideVars

TranscriptOutcomes == {"messages", "error"}

\* variant of buildHandoffEventFromPreviousSession: a failed read of the
\* transcript still yields an event
buildHandoffIgnoringReadFailure(c, previousEntry, transcript) ==
  c.handoffMode # "none"

\* variant of buildHandoffEventFromPreviousSession: the mode none is not
\* looked at
buildHandoffIgnoringMode(c, previousEntry, transcript) ==
  transcript = "messages"

buildHandoffEventFromPreviousSession(c, previousEntry, transcript) ==
  IF c.handoffMode = "none" THEN FALSE
  ELSE transcript = "messages"

\* the handoff is built, the state is reset, the caller records the rotation
FinishRotate(s, transcript) ==
  LET h == handlers[s]
      key == h.sessionKey
      handoff == buildHandoffEventFromPreviousSession(cfg, h.previousEntry, transcript)
      reset == ResetState(cfg, StateOf(key, h.now), h.entry, clock)
  IN /\ h.pc = "handoff"
     /\ enqueued' =
          IF handoff
          THEN enqueued \cup {[sessionKey |-> key, contextKey |-> h.contentHash,
                               previousSessionId |-> h.previousEntry.sessionId]}
          ELSE enqueued
     /\ recentRotationBySession' =
          pruneRecentMap(MapSet(recentRotationBySession, <<key, h.contentHash>>, clock),
                         clock, ROTATION_DEDUPE_MS * 3, MAX_RECENT_FAST_EVENTS)
     /\ sessionState' = pruneStateMaps(MapSet(sessionState, key, reset), clock)
     /\ lastRotate' = RotateOutcome(h, TRUE, FALSE, transcript)
     /\ Idle(s)
     /\ UNCHANGED <<cfg, inputs, lockExclusive, clock, recentFastEvents, store,
                    alphaStore, lockHolder, uuidCounter, evCount, writes, lastClass,
                    suspectRun>>
     /\ UNCHANGED sideVars

\* Time passes between events and while a handler waits for the lock or
\* for the embedding backend; one tick is far longer than the file accesses
\* of a rotation.
Tick(d) ==
  /\ clock + d <= MaxClock
  /\ evCount < EventBudget \/ \E s \in Slots : handlers[s].pc # "idle"
  /\ \A s \in Slots : handlers[s].pc \notin {"write", "handoff"}
  /\ clock' = clock + d
  /\ UNCHANGED <<cfg, inputs, lockExclusive, sessionState, recentFastEvents,
                 recentRotationBySession, store, alphaStore, lockHolder, handlers,
                 uuidCounter, evCount, writes, enqueued, lastClass, lastRotate,
                 suspectRun>>
  /\ UNCHANGED sideVars

Next ==
  \/ \E s \in Slots, ev \in inputs : Start(s, ev)
  \/ \E s \in Slots, v \in EmbedVectors \cup {NoVector} : EmbedReturn(s, v)
  \/ \E s \in Slots : ReadStore(s)
  \/ \E s \in Slots : WriteStore(s)
  \/ \E s \in Slots, t \in TranscriptOutcomes : FinishRotate(s, t)
  \/ \E d \in TickSteps : Tick(d)

Spec == Init /\ [][Next]_vars

SpecTestLock == InitTestLock /\ [][Next]_vars

\* every call of embeddingBackend.embed throws or times out
NextEmbedFails ==
  \/ \E s \in Slots, ev \in inputs : Start(s, ev)
  \/ \E s \in Slots : EmbedReturn(s, NoVector)
  \/ \E s \in Slots : ReadStore(s)
  \/ \E s \in Slots : WriteStore(s)
  \/ \E s \in Slots, t \in TranscriptOutcomes : FinishRotate(s, t)
  \/ \E d \in TickSteps : Tick(d)

SpecEmbedFails == InitEmbedFails /\ [][NextEmbedFails]_vars

InitTwoSessions ==
  /\ InitWith(Scenario([BaseConfig EXCEPT !.backendAvailable = TRUE,
                                          !.cooldownMinutes = 0],
                       RegistryFull, TwoSessionInputs))
  /\ lockExclusive = TRUE

SpecTwoSessions == InitTwoSessions /\ [][Next]_vars

\* resolveAgentRoute throws for the peer u9
RouteFailsInputs ==
  {FastEvent("u1", t) : t \in {TBase, TSoft, THard}}
  \cup {[FastEvent("u9", t) EXCEPT !.routeOk = FALSE] : t \in {TBase, THard}}

InitRouteFails ==
  /\ InitWith(Scenario([BaseConfig EXCEPT !.backendAvailable = TRUE,
                                          !.cooldownMinutes = 0],
                       RegistryFull, RouteFailsInputs))
  /\ lockExclusive = TRUE

SpecRouteFails == InitRouteFails /\ [][Next]_vars

\* the tokens that the sets of a call of jaccardSimilarity are drawn from
TokenUniverse == {"alpha", "beta", "gamma", "xray"}

\* the hooks are registered and idle: nothing is delivered
HooksIdle ==
  /\ InitHooks(Scenario(BaseConfig, RegistryFull, {}))
  /\ lockExclusive = TRUE

InitJaccard ==
  /\ HooksIdle
  /\ pureArgs \in (SUBSET TokenUniverse) \X (SUBSET TokenUniverse)
  /\ pureResult = NoResult
  /\ RuntimeUnused

\* jaccardSimilarity(left, right) is called and returns
CallJaccard ==
  /\ pureResult = NoResult
  /\ pureResult' = [fn |-> "jaccardSimilarity",
                    value |-> jaccardSimilarity(pureArgs[1], pureArgs[2])]
  /\ UNCHANGED <<hookVars, pureArgs, runtimeVars>>

NextJaccard == CallJaccard

SpecJaccard == InitJaccard /\ [][NextJaccard]_vars

(***************************************************************************)
(* Session tracking: the Map of SessionState in insertion order, each      *)
(* entry reduced to its key and lastSeenAt, with the cap scaled down       *)
(***************************************************************************)
ScaledTrackedCap == 2
MaxTrackTicks == 2
MaxTrackClock == STALE_SESSION_STATE_MS + MaxTrackTicks
TrackKeys == {"k1", "k2", "k3"}

KeysOf(entries) == {entries[i].key : i \in DOMAIN entries}

SeenAt(entries, k) ==
  LET i == CHOOSE j \in DOMAIN entries : entries[j].key = k
  IN entries[i].lastSeenAt

IsStale(e, now) == now - e.lastSeenAt > STALE_SESSION_STATE_MS

\* variant of pruneStateEntries: the sort is descending, the most recently
\* seen sessions are dropped
pruneStateEntriesNewestFirst(entries, now, cap) ==
  LET fresh == SelectSeq(entries, LAMBDA e : ~IsStale(e, now))
      toDrop == Len(fresh) - cap
      Before(i) ==
        Cardinality({j \in DOMAIN fresh :
                       \/ fresh[j].lastSeenAt > fresh[i].lastSeenAt
                       \/ fresh[j].lastSeenAt = fresh[i].lastSeenAt /\ j < i})
      kept == {fresh[i].key : i \in {j \in DOMAIN fresh : Before(j) >= toDrop}}
  IN IF toDrop <= 0 THEN fresh
     ELSE SelectSeq(fresh, LAMBDA e : e.key \in kept)

\* pruneStateMaps on the ordered Map: stale sessions are deleted; above the
\* cap the entries are sorted by lastSeenAt (a stable sort of the insertion
\* order) and the first size - cap of them are deleted
pruneStateEntries(entries, now, cap) ==
  LET fresh == SelectSeq(entries, LAMBDA e : ~IsStale(e, now))
      toDrop == Len(fresh) - cap
      Before(i) ==
        Cardinality({j \in DOMAIN fresh :
                       \/ fresh[j].lastSeenAt < fresh[i].lastSeenAt
                       \/ fresh[j].lastSeenAt = fresh[i].lastSeenAt /\ j < i})
      kept == {fresh[i].key : i \in {j \in DOMAIN fresh : Before(j) >= toDrop}}
  IN IF toDrop <= 0 THEN fresh
     ELSE SelectSeq(fresh, LAMBDA e : e.key \in kept)

\* Map.set(key, value): an existing key keeps its place, a new one is last
SetEntry(entries, k, seenAt) ==
  IF k \in KeysOf(entries)
  THEN [i \in DOMAIN entries |->
          IF entries[i].key = k THEN [key |-> k, lastSeenAt |-> seenAt]
          ELSE entries[i]]
  ELSE Append(entries, [key |-> k, lastSeenAt |-> seenAt])

InitTracking ==
  /\ HooksIdle
  /\ RuntimeUnused
  /\ pureArgs = [entries |-> <<>>, inFlight |-> [k \in TrackKeys |-> NoTime],
                 now |-> 0]
  /\ pureResult = NoResult

\* what a call of pruneStateMaps after the set of session k was given and
\* what it left
PruneCall(k, before, now) ==
  [fn |-> "pruneStateMaps", key |-> k, before |-> before, now |-> now,
   value |-> pruneStateEntries(before, now, ScaledTrackedCap)]

\* a message of session k is processed without suspending (warmup, stable
\* or suspect, no embedding): the state is stamped, set and the Map pruned
TrackWhole(k) ==
  /\ pureArgs.inFlight[k] = NoTime
  /\ pureResult' = PruneCall(k, SetEntry(pureArgs.entries, k, pureArgs.now),
                             pureArgs.now)
  /\ pureArgs' = [pureArgs EXCEPT !.entries = pureResult'.value]
  /\ UNCHANGED <<hookVars, runtimeVars>>

\* classifyAndMaybeRotate takes now and stamps the state of the session
\* with it (lines 1496-1509), then suspends (embed or rotateSessionEntry):
\* the message is beyond warmup, so its session is tracked
TrackBegin(k) ==
  /\ pureArgs.inFlight[k] = NoTime
  /\ k \in KeysOf(pureArgs.entries)
  /\ pureArgs' =
       [pureArgs EXCEPT
          !.inFlight[k] = pureArgs.now,
          !.entries = SetEntry(pureArgs.entries, k, pureArgs.now)]
  /\ UNCHANGED <<hookVars, pureResult, runtimeVars>>

\* the handler resumes: sessionState.set(sessionKey, state) and
\* pruneStateMaps(sessionState), which reads the clock again
TrackFinish(k) ==
  /\ pureArgs.inFlight[k] # NoTime
  /\ pureResult' =
       PruneCall(k, SetEntry(pureArgs.entries, k, pureArgs.inFlight[k]),
                 pureArgs.now)
  /\ pureArgs' = [pureArgs EXCEPT !.inFlight[k] = NoTime,
                                  !.entries = pureResult'.value]
  /\ UNCHANGED <<hookVars, runtimeVars>>

\* time passes: a millisecond (MaxTrackTicks times at most between two
\* longer waits), or the stale TTL. No handler stays suspended for the TTL:
\* embed is aborted after embedding.timeoutMs (line 878) and the lock gives
\* up after LOCK_OPTIONS.retries (line 269).
TrackTick(d) ==
  /\ pureArgs.now + d <= MaxTrackClock
  /\ d = 1 => pureArgs.now % STALE_SESSION_STATE_MS < MaxTrackTicks
  /\ d # 1 => \A k \in TrackKeys : pureArgs.inFlight[k] = NoTime
  /\ pureArgs' = [pureArgs EXCEPT !.now = pureArgs.now + d]
  /\ UNCHANGED <<hookVars, pureResult, runtimeVars>>

NextTracking ==
  \/ \E k \in TrackKeys : TrackWhole(k)
  \/ \E k \in TrackKeys : TrackBegin(k)
  \/ \E k \in TrackKeys : TrackFinish(k)
  \/ \E d \in {1, STALE_SESSION_STATE_MS} : TrackTick(d)

SpecTracking == InitTracking /\ [][NextTracking]_vars

(***************************************************************************)
(* resolveConfig on the two history settings, and a session that keeps     *)
(* receiving eligible messages                                             *)
(***************************************************************************)
PresetHistoryWindow == 10
PresetMinHistoryMessages == 3

\* a raw setting: not a finite number, or a number given in halves
NotANumber == [finite |-> FALSE, halves |-> 0]
Halves(h) == [finite |-> TRUE, halves |-> h]

clampInt(value, fallback, min, max) ==
  IF ~value.finite THEN fallback
  ELSE LET n == value.halves \div 2
       IN IF n < min THEN min ELSE IF n > max THEN max ELSE n

\* resolveConfig, lines 460-461: each setting is clamped on its own
resolveConfig(advanced) ==
  [BaseConfig EXCEPT
     !.historyWindow =
        clampInt(advanced.historyWindow, PresetHistoryWindow, 2, 40),
     !.minHistoryMessages =
        clampInt(advanced.minHistoryMessages, PresetMinHistoryMessages, 1, 30)]

RawHistoryWindows ==
  {NotANumber, Halves(3), Halves(4), Halves(7), Halves(12), Halves(100)}
RawMinHistoryMessages ==
  {NotANumber, Halves(0), Halves(2), Halves(4), Halves(7), Halves(12), Halves(80)}

InitStream ==
  /\ HooksIdle
  /\ RuntimeUnused
  /\ \E w \in RawHistoryWindows, m \in RawMinHistoryMessages :
       pureArgs = [cfg |-> resolveConfig([historyWindow |-> w,
                                          minHistoryMessages |-> m]),
                   state |-> NewState(0), turn |-> 0]
  /\ pureResult = NoResult

\* the next eligible message of the session is classified (the texts
\* alternate); while the decision is warmup the entry joins the history
\* (lines 1580-1588)
ClassifyEligible ==
  LET c == pureArgs.cfg
      state == pureArgs.state
      text == IF pureArgs.turn = 0 THEN TBase ELSE TNear
      tokenList == tokenizeList(text, c.minTokenLength)
      tokens == SeqToSet(tokenList)
      baselineTokens == unionTokens(state.history)
      lexical == computeLexicalFeatures(c, tokens, tokenList, baselineTokens)
      decision == classifyMessage(c, state, Cardinality(baselineTokens), lexical,
                                  NoSim, FALSE, 0)
      entry == [tokens |-> tokens, embedding |-> NoVector, at |-> 0]
  IN /\ pureResult.fn = "classifyMessage" => pureResult.value = "warmup"
     /\ pureResult' = [fn |-> "classifyMessage", value |-> decision.kind]
     /\ pureArgs' =
          [pureArgs EXCEPT
             !.turn = 1 - pureArgs.turn,
             !.state = IF decision.kind = "warmup"
                       THEN WarmupUpdate(c, state, entry) ELSE state]
     /\ UNCHANGED <<hookVars, runtimeVars>>

NextStream == ClassifyEligible

\* the session keeps receiving messages
SpecStream == InitStream /\ [][NextStream]_vars /\ WF_vars(NextStream)

(***************************************************************************)
(* The documented hooks of one session: the persisted snapshot, the        *)
(* outbound messages and the soft-suspect steer                            *)
(***************************************************************************)
MaxRuntimeEvents == 5
MaxRuntimeClock == 4
RuntimeHistoryWindow == 2
RuntimeSoftSignals == 2
PersistedVersion == 1
SteerPrompt == "ASK_CLARIFY"

SoftSuspectConfigs ==
  {[action |-> a, mode |-> m, ttl |-> 2] :
     a \in {"ask", "none"}, m \in {"strict", "best_effort"}}

Snapshots ==
  {NoSnapshot} \cup
  {[present |-> TRUE, version |-> v, historyLen |-> 1,
    pendingSoftSignals |-> 1, recentRotations |-> 1] : v \in {PersistedVersion, 999}}

\* variant of loadPersistedState: the snapshot is restored whatever its version
loadAnyVersion(snap) ==
  IF ~snap.present THEN [EmptyRuntime EXCEPT !.loaded = TRUE]
  ELSE [EmptyRuntime EXCEPT !.loaded = TRUE,
                            !.historyLen = snap.historyLen,
                            !.pendingSoftSignals = snap.pendingSoftSignals,
                            !.recentRotations = snap.recentRotations]

\* startup: the snapshot is restored if its version is the expected one
loadPersistedState(snap) ==
  IF ~snap.present THEN [EmptyRuntime EXCEPT !.loaded = TRUE]
  ELSE IF snap.version # PersistedVersion
  THEN [EmptyRuntime EXCEPT !.loaded = TRUE, !.warned = TRUE]
  ELSE [EmptyRuntime EXCEPT !.loaded = TRUE,
                            !.historyLen = snap.historyLen,
                            !.pendingSoftSignals = snap.pendingSoftSignals,
                            !.recentRotations = snap.recentRotations]

\* a ticket past its TTL clears the pending state
expireSteer(state) ==
  IF state.pendingSteer.armed /\ state.now >= state.pendingSteer.expiresAt
  THEN [state EXCEPT !.pendingSteer = NoTicket, !.pendingSoftSignals = 0]
  ELSE state

\* variant of tryConsumeSteer: the prompt is returned as long as the ticket lives
tryConsumeSteerAgain(state) ==
  LET st == expireSteer(state)
  IN IF st.pendingSteer.armed
     THEN [prompt |-> SteerPrompt,
           next |-> [st EXCEPT !.pendingSteer.injected = TRUE]]
     ELSE [prompt |-> "", next |-> st]

\* tryConsumeSteer(state, now) -> (prompt?, nextState)
tryConsumeSteer(state) ==
  LET st == expireSteer(state)
  IN IF st.pendingSteer.armed /\ ~st.pendingSteer.injected
     THEN [prompt |-> SteerPrompt,
           next |-> [st EXCEPT !.pendingSteer.injected = TRUE]]
     ELSE [prompt |-> "", next |-> st]

\* variant of SoftConfirmAllowed: the steer never withholds a rotation
SoftConfirmAlways(c, state) == TRUE

\* strict mode: a soft-confirmed rotation waits for the injected steer
SoftConfirmAllowed(c, state) ==
  \/ c.action # "ask"
  \/ c.mode # "strict"
  \/ state.pendingSteer.armed /\ state.pendingSteer.injected

\* the decision for an inbound message carrying the signal
RuntimeDecision(state, signal) ==
  IF state.historyLen < 1 THEN "warmup"
  ELSE IF signal = "hard" THEN "rotate-hard"
  ELSE IF signal = "none" THEN "stable"
  ELSE IF state.pendingSoftSignals + 1 >= RuntimeSoftSignals THEN "rotate-soft"
  ELSE "suspect"

Grown(n) == IF n < RuntimeHistoryWindow THEN n + 1 ELSE RuntimeHistoryWindow

Rotated(state) ==
  [state EXCEPT !.sessionId = state.sessionId + 1,
                !.historyLen = 1,
                !.pendingSoftSignals = 0,
                !.pendingSteer = NoTicket,
                !.recentRotations = 1]

\* the state after an inbound message under the decision
InboundUpdate(c, state, decision) ==
  IF decision \in {"warmup", "stable"}
  THEN [state EXCEPT !.historyLen = Grown(state.historyLen),
                     !.pendingSoftSignals = 0]
  ELSE IF decision = "suspect"
  THEN [state EXCEPT !.pendingSoftSignals = state.pendingSoftSignals + 1,
                     !.pendingSteer =
                        IF c.action = "ask"
                        THEN [createdAt |-> state.now,
                              expiresAt |-> state.now + c.ttl,
                              injected |-> FALSE, armed |-> TRUE]
                        ELSE state.pendingSteer]
  ELSE IF decision = "rotate-hard" THEN Rotated(state)
  ELSE IF SoftConfirmAllowed(c, state) THEN Rotated(state)
  ELSE state

\* variant of OutboundUpdate: the outbound text is classified as inbound text is
OutboundClassified(c, state, success, signal) ==
  IF ~success THEN state
  ELSE InboundUpdate(c, state, RuntimeDecision(state, signal))

\* message_sent: a successful send updates the topic context only
OutboundUpdate(c, state, success, signal) ==
  IF ~success THEN state
  ELSE [state EXCEPT !.historyLen = Grown(state.historyLen)]

Delivered(state) == [state EXCEPT !.events = state.events + 1]

InitRuntime ==
  /\ HooksIdle /\ NoPureCall
  /\ softSuspect \in SoftSuspectConfigs
  /\ persisted \in Snapshots
  /\ runtime = EmptyRuntime
  /\ lastHook = NoHook

LoadState ==
  /\ ~runtime.loaded
  /\ runtime' = loadPersistedState(persisted)
  /\ lastHook' = [NoHook EXCEPT !.seq = lastHook.seq + 1, !.hook = "load"]
  /\ UNCHANGED <<hookVars, pureVars, softSuspect, persisted>>

RuntimeMessageReceived(signal) ==
  /\ runtime.loaded /\ runtime.events < MaxRuntimeEvents
  /\ LET st == expireSteer(runtime)
         decision == RuntimeDecision(st, signal)
     IN /\ runtime' = Delivered(InboundUpdate(softSuspect, st, decision))
        /\ lastHook' = [NoHook EXCEPT !.seq = lastHook.seq + 1,
                                      !.hook = "message_received",
                                      !.decision = decision,
                                      !.signal = signal]
  /\ UNCHANGED <<hookVars, pureVars, softSuspect, persisted>>

RuntimeMessageSent(success, signal) ==
  /\ runtime.loaded /\ runtime.events < MaxRuntimeEvents
  /\ runtime' = Delivered(OutboundUpdate(softSuspect, runtime, success, signal))
  /\ lastHook' = [NoHook EXCEPT !.seq = lastHook.seq + 1,
                                !.hook = "message_sent",
                                !.success = success,
                                !.signal = signal]
  /\ UNCHANGED <<hookVars, pureVars, softSuspect, persisted>>

BeforePromptBuild ==
  /\ runtime.loaded /\ runtime.events < MaxRuntimeEvents
  /\ LET r == tryConsumeSteer(runtime)
     IN /\ runtime' = Delivered(r.next)
        /\ lastHook' = [NoHook EXCEPT !.seq = lastHook.seq + 1,
                                      !.hook = "before_prompt_build",
                                      !.prepend = r.prompt]
  /\ UNCHANGED <<hookVars, pureVars, softSuspect, persisted>>

RuntimeTick ==
  /\ runtime.loaded /\ runtime.now < MaxRuntimeClock
  /\ runtime' = [runtime EXCEPT !.now = runtime.now + 1]
  /\ UNCHANGED <<hookVars, pureVars, softSuspect, persisted, lastHook>>

NextRuntime ==
  \/ LoadState
  \/ \E signal \in {"none", "soft", "hard"} : RuntimeMessageReceived(signal)
  \/ \E success \in BOOLEAN, signal \in {"none", "soft", "hard"} :
       RuntimeMessageSent(success, signal)
  \/ BeforePromptBuild
  \/ RuntimeTick

SpecRuntime == InitRuntime /\ [][NextRuntime]_vars

\* A step of the rotation throws: resolveStorePath or withFileLock (the
\* retries are used up) or readJsonFileWithFallback before the callback has
\* prepared the entry, writeJsonFileAtomically after.  withFileLock releases
\* the lock; neither rotateSessionEntry nor classifyAndMaybeRotate nor the
\* hook catches, so the promise of the hook rejects with the exception.
RotationThrows(s) ==
  LET h == handlers[s]
  IN /\ h.pc \in {"lockWait", "write"}
     /\ lockHolder' = IF lockHolder = s THEN 0 ELSE lockHolder
     /\ lastRotate' = RotateOutcome(h, FALSE, TRUE, "")
     /\ Idle(s)
     /\ UNCHANGED <<cfg, inputs, lockExclusive, clock, sessionState, recentFastEvents,
                    recentRotationBySession, store, alphaStore, uuidCounter, evCount,
                    writes, enqueued, lastClass, suspectRun>>
     /\ UNCHANGED sideVars

NextFaulty ==
  \/ Next
  \/ \E s \in Slots : RotationThrows(s)

\* the host's path resolver, lock and file system may fail
SpecFaulty == Init /\ [][NextFaulty]_vars

(***************************************************************************)
(* Properties                                                              *)
(***************************************************************************)
InFlight(s) == handlers[s].pc # "idle"

\* the handler decided rotate-soft or rotate-hard and has called
\* rotateSessionEntry (not a dry run)
Rotating(s) == handlers[s].pc \in {"lockWait", "write", "handoff"}

\* the handler is inside the callback it passed to withFileLock
InLockCallback(s) == handlers[s].pc = "write"

\* the handler has replaced the registry file and not yet reset the state
HasWritten(s) == handlers[s].pc = "handoff"

\* this step classifies a message (lastClass' describes the decision)
Classifies == lastClass' # lastClass

\* C1: not a dry run, the registry holds the entry of k: two handlers in
\* flight for k at once that both decided to rotate from the same baseline
\* do not both write the registry.
C1_ConcurrentRotatesWriteOnce ==
  \A s, t \in Slots :
    (/\ s # t
     /\ ~cfg.dryRun
     /\ Rotating(s) /\ Rotating(t)
     /\ handlers[s].sessionKey = handlers[t].sessionKey
     /\ handlers[s].baselineTokens = handlers[t].baselineTokens
     /\ findStoreKey(store, handlers[s].sessionKey) # "")
    => ~(HasWritten(s) /\ HasWritten(t))

\* C2: with the lock that counts its entrants and does not block them, at
\* most one withFileLock callback is in progress at any time.
C2_OneLockCallbackAtATime ==
  \A s, t \in Slots : InLockCallback(s) /\ InLockCallback(t) => s = t

\* C3: a message is never classified while another handler for the same
\* session key is in flight (suspended at the embedding request or in the
\* rotation), so the decisions are those of a sequential order.
C3_ClassificationSerialized ==
  [][Classifies =>
       \A t \in Slots :
         (InFlight(t) /\ handlers[t].id # lastClass'.id)
           => handlers[t].sessionKey # lastClass'.sessionKey]_vars

\* this step is the registry write of handler s
Writes(s) == handlers[s].pc = "write" /\ handlers'[s].pc = "handoff"

\* C4: a successful rotation writes the entry with a fresh sessionId that
\* differs from the previous one, systemSent and abortedLastRun false, the
\* three token counters zero and no sessionFile.
C4_RotationWritesFreshEntry ==
  [][\A s \in Slots :
       Writes(s) =>
         LET k == handlers[s].storeKey
             before == FileAt(handlers[s].storePath)
             e == FileAt(handlers[s].storePath)'[k]
         IN /\ e.sessionId # before[k].sessionId
            /\ e.sessionId \notin {before[x].sessionId : x \in DOMAIN before}
            /\ e.systemSent = FALSE
            /\ e.abortedLastRun = FALSE
            /\ e.inputTokens = 0 /\ e.outputTokens = 0 /\ e.totalTokens = 0
            /\ e.sessionFile = NoFile]_vars

\* a rotation has replaced an entry that had a transcript pointer, set flags
\* and non-zero counters
C4_Witness ==
  \E s \in Slots :
    /\ HasWritten(s)
    /\ handlers[s].previousEntry.sessionFile # NoFile
    /\ handlers[s].previousEntry.systemSent
    /\ handlers[s].previousEntry.totalTokens > 0
    /\ FileAt(handlers[s].storePath)[handlers[s].storeKey].sessionId
         # handlers[s].previousEntry.sessionId
    /\ FileAt(handlers[s].storePath)[handlers[s].storeKey].sessionFile = NoFile

\* the fields of a registry entry that a rotation does not own
UnknownFields(e) ==
  [e EXCEPT !.sessionId = 0, !.updatedAt = 0, !.systemSent = FALSE,
            !.abortedLastRun = FALSE, !.inputTokens = 0, !.outputTokens = 0,
            !.totalTokens = 0, !.totalTokensFresh = TRUE, !.sessionFile = NoFile]

CooldownMs == cfg.cooldownMinutes * 60000

IsRotate(kind) == kind \in {"rotate-soft", "rotate-hard"}

\* C6: with a cooldown configured, two registry writes for one session are
\* at least the cooldown apart, and no message classified within the
\* cooldown after a registry write for its session is decided rotate-soft
\* or rotate-hard.
C6_NoRotationInCooldown ==
  cfg.cooldownMinutes > 0 =>
    /\ \A i, j \in DOMAIN writes :
         (i < j /\ writes[i].sessionKey = writes[j].sessionKey)
           => writes[j].at - writes[i].at >= CooldownMs
    /\ IsRotate(lastClass.kind) =>
         \A i \in 1..lastClass.writesBefore :
           writes[i].sessionKey = lastClass.sessionKey
             => lastClass.at - writes[i].at >= CooldownMs

\* the warm-up condition of a recorded classification
InWarmup(m) ==
  \/ m.historyLen < cfg.minHistoryMessages
  \/ m.baselineTokenCount < cfg.minMeaningfulTokens

HistoryOf(map, k) == IF k \in DOMAIN map THEN map[k].history ELSE <<>>

\* C7: a message classified while the history is shorter than
\* minHistoryMessages or the baseline has fewer than minMeaningfulTokens
\* tokens is decided warmup, its entry is appended to the history, and no
\* rotation starts and the registry is not written.
C7_WarmupOnly ==
  [][(Classifies /\ InWarmup(lastClass')) =>
       LET k == lastClass'.sessionKey
           before == HistoryOf(sessionState, k)
           after == HistoryOf(sessionState', k)
       IN /\ lastClass'.kind = "warmup"
          /\ after # <<>>
          /\ after[Len(after)] = lastClass'.entry
          /\ Len(before) < cfg.historyWindow => after = Append(before, lastClass'.entry)
          /\ \A s \in Slots : handlers'[s].id # lastClass'.id
          /\ store' = store
          /\ writes' = writes]_vars

\* a message with a score above the hard threshold was decided warmup behind
\* a non-empty history, and nothing was written
C7_Witness ==
  /\ lastClass.kind = "warmup"
  /\ lastClass.historyLen >= 1
  /\ lastClass.score >= cfg.hardScoreThreshold
  /\ writes = <<>>

PendingOf(map, k) == IF k \in DOMAIN map THEN map[k].pendingSoftSignals ELSE 0

PendingEntriesOf(map, k) == IF k \in DOMAIN map THEN map[k].pendingEntries ELSE <<>>

\* this step ends the processing of a message of session k that was decided
\* `kind`: at the classification itself, or when rotateSessionEntry returns
Completes(k, kind) ==
  \/ /\ Classifies
     /\ lastClass'.sessionKey = k
     /\ lastClass'.kind = kind
     /\ \A s \in Slots : handlers'[s].id # lastClass'.id
  \/ \E s \in Slots :
       /\ Rotating(s)
       /\ handlers'[s].pc = "idle"
       /\ handlers[s].sessionKey = k
       /\ handlers[s].kind = kind

\* C8: when the processing of a message decided stable, rotate-soft or
\* rotate-hard ends, the stored pendingSoftSignals of its session is 0; and
\* pendingSoftSignals grows only in a suspect decision, by exactly 1.
C8_PendingSoftSignalsReset ==
  [][\A k \in SessionKeys :
       /\ (\E kind \in {"stable", "rotate-soft", "rotate-hard"} : Completes(k, kind))
            => PendingOf(sessionState', k) = 0
       /\ PendingOf(sessionState', k) > PendingOf(sessionState, k) =>
            /\ Classifies
            /\ lastClass'.sessionKey = k
            /\ lastClass'.kind = "suspect"
            /\ PendingOf(sessionState', k) = PendingOf(sessionState, k) + 1]_vars

\* the hard and soft signals of a recorded classification, as section 4.4
\* of the specification words them
HasSimilarity(m) == m.similarity # NoSim

IsHardSignal(m) ==
  \/ m.score >= cfg.hardScoreThreshold
  \/ /\ HasSimilarity(m)
     /\ m.similarity <= cfg.hardSimilarityThreshold
     /\ m.novelty >= cfg.hardNoveltyThreshold
  \/ /\ ~HasSimilarity(m)
     /\ m.novelty >= cfg.hardNoveltyThreshold
     /\ m.lexicalDistance >= 650000

IsSoftSignal(m) ==
  \/ m.score >= cfg.softScoreThreshold
  \/ /\ HasSimilarity(m)
     /\ m.similarity <= cfg.softSimilarityThreshold
     /\ m.novelty >= cfg.softNoveltyThreshold
  \/ /\ ~HasSimilarity(m)
     /\ m.novelty >= cfg.softNoveltyThreshold
     /\ m.lexicalDistance >= 450000

\* C9: outside warm-up and cooldown and without a hard signal, a soft-signal
\* message is decided rotate-soft exactly when pendingSoftSignals + 1 reaches
\* softConsecutiveSignals and suspect otherwise; and every rotate-soft comes
\* directly after softConsecutiveSignals - 1 suspect decisions of its session.
C9_SoftConfirmation ==
  /\ (/\ lastClass.id # 0
      /\ ~InWarmup(lastClass) /\ ~lastClass.cooldown
      /\ ~IsHardSignal(lastClass) /\ IsSoftSignal(lastClass))
       => lastClass.kind =
            IF lastClass.pendingBefore + 1 >= cfg.softConsecutiveSignals
            THEN "rotate-soft" ELSE "suspect"
  /\ lastClass.kind = "rotate-soft"
       => lastClass.suspectsBefore >= cfg.softConsecutiveSignals - 1

C11_NoWriteWithinDedupeWindow ==
  \A i, j \in DOMAIN writes :
    (/\ i <= writes[j].writesSeen
     /\ writes[j].sessionKey = writes[i].sessionKey
     /\ writes[j].contentHash = writes[i].contentHash)
      => writes[j].observedAt - writes[i].at >= ROTATION_DEDUPE_MS

\* C12: in a dry run no step acquires the registry lock, starts a rotation
\* or writes the registry: the registry content stays as it was, also in
\* runs where messages are decided rotate-soft or rotate-hard.
C12_DryRunLeavesRegistry ==
  [][cfg.dryRun =>
       /\ store' = store
       /\ writes' = writes
       /\ lockHolder' = 0
       /\ \A s \in Slots : handlers'[s].pc \notin {"lockWait", "write", "handoff"}]_vars

\* a dry run in which a message was decided rotate and rotateSessionEntry
\* returned true
C12_Witness ==
  /\ cfg.dryRun
  /\ IsRotate(lastClass.kind)
  /\ lastRotate.id = lastClass.id /\ lastRotate.returned

\* the registry file that handler s resolved holds no entry for its session
\* key, neither under the key itself nor under a key that differs in case
NoMatchingEntry(s) ==
  \A k \in DOMAIN FileAt(handlers[s].storePath) :
    Lower(k) # Lower(handlers[s].sessionKey)

\* C13: when the registry holds no entry matching the session key, or the
\* registry file is missing, rotateSessionEntry returns false without
\* throwing and neither registry file is written.
C13_NoEntryReturnsFalse ==
  [][\A s \in Slots :
       (/\ handlers[s].pc = "lockWait"
        /\ handlers'[s] # handlers[s]
        /\ NoMatchingEntry(s))
         => /\ lastRotate' = RotateOutcome(handlers[s], FALSE, FALSE, "")
            /\ handlers'[s].pc = "idle"
            /\ store' = store /\ alphaStore' = alphaStore
            /\ writes' = writes
            /\ lockHolder' = lockHolder]_vars

\* rotateSessionEntry returned false for a session whose registry file is
\* missing, and nothing was written
C13_Witness ==
  /\ lastRotate.id # 0
  /\ ~lastRotate.returned /\ ~lastRotate.threw
  /\ store = RegistryMissing
  /\ writes = <<>>

\* C14: when a rotation was decided and the registry has no matching entry,
\* rotateSessionEntry reports the failure and the in-memory state of the
\* session is reset all the same: the history restarts from the triggering
\* entry and pendingSoftSignals is 0.
C14_FailedRotationResetsState ==
  [][\A s \in Slots :
       (/\ handlers[s].pc = "lockWait"
        /\ handlers'[s].pc = "idle"
        /\ NoMatchingEntry(s))
         => LET k == handlers[s].sessionKey
            IN /\ lastRotate'.id = handlers[s].id
               /\ ~lastRotate'.returned
               /\ HistoryOf(sessionState', k) =
                    trimHistory(<<handlers[s].entry>>, cfg.historyWindow)
               /\ PendingOf(sessionState', k) = 0]_vars

\* C15: in a dry run a rotate decision resets the in-memory state as a real
\* rotation does: lastResetAt is the time of the decision, pendingSoftSignals
\* is 0, pendingEntries is empty and the history restarts from the
\* triggering entry.
C15_DryRunResetsState ==
  [][(/\ Classifies
      /\ cfg.dryRun
      /\ IsRotate(lastClass'.kind))
       => LET k == lastClass'.sessionKey
              st == sessionState'[k]
          IN /\ k \in DOMAIN sessionState'
             /\ st.lastResetAt = lastClass'.at
             /\ st.pendingSoftSignals = 0
             /\ st.pendingEntries = <<>>
             /\ st.history = trimHistory(<<lastClass'.entry>>, cfg.historyWindow)]_vars

LastResetOf(map, k) == IF k \in DOMAIN map THEN map[k].lastResetAt ELSE NoTime

\* C16: a rotation attempt that ends without its write although the
\* registry holds the entry (the path resolution, the lock, the read or the
\* write failed) raises no exception out of the hook: rotateSessionEntry
\* returns, no dedupe marker is recorded and lastResetAt is unchanged.
C16_RotationFailureContained ==
  [][\A s \in Slots :
       (/\ handlers[s].pc \in {"lockWait", "write"}
        /\ handlers'[s].pc = "idle"
        /\ ~NoMatchingEntry(s))
         => LET k == handlers[s].sessionKey
            IN /\ lastRotate'.id = handlers[s].id
               /\ ~lastRotate'.threw
               /\ recentRotationBySession' = recentRotationBySession
               /\ LastResetOf(sessionState', k) = LastResetOf(sessionState, k)]_vars

\* the decision of classifyAndMaybeRotate for the message of handler h when
\* no embedding provider is configured: nothing is awaited, the lexical
\* features are those against the history as it is
ClassifiedWithoutProvider(h) ==
  LET st == StateOf(h.sessionKey, h.now)
      baseline == unionTokens(st.history)
      lexical == computeLexicalFeatures(cfg, h.tokens, h.tokenList, baseline)
  IN classifyMessage(cfg, st, Cardinality(baseline), lexical, NoSim, FALSE, h.now)

\* C17: when every call of the embedding backend throws, a message whose
\* embedding was requested is classified without a similarity, by the
\* lexical score, and its decision is the one that the provider none gives
\* for the message in the same session state.
C17_EmbedFailureEqualsNoProvider ==
  [][\A s \in Slots :
       (handlers[s].pc = "embed" /\ handlers'[s].pc # "embed")
         => LET h == handlers[s]
                expected == ClassifiedWithoutProvider(h)
            IN /\ lastClass'.id = h.id
               /\ lastClass'.similarity = NoSim
               /\ lastClass'.score = h.lexical.score
               /\ lastClass'.kind = expected.kind]_vars

\* C18: when the read of the previous transcript fails during the handoff,
\* the rotation still succeeds: the registry write stands,
\* rotateSessionEntry returns true, the state is reset and the dedupe marker
\* is recorded; only no handoff event is enqueued.
C18_TranscriptFailureKeepsRotation ==
  [][\A s \in Slots :
       (/\ HasWritten(s)
        /\ handlers'[s].pc = "idle"
        /\ lastRotate'.transcript = "error")
         => LET h == handlers[s]
                k == h.sessionKey
                marker == <<k, h.contentHash>>
            IN /\ lastRotate'.id = h.id
               /\ lastRotate'.returned /\ ~lastRotate'.threw
               /\ store' = store /\ alphaStore' = alphaStore
               /\ \E i \in DOMAIN writes' : writes'[i].id = h.id
               /\ LastResetOf(sessionState', k) = clock
               /\ PendingOf(sessionState', k) = 0
               /\ PendingEntriesOf(sessionState', k) = <<>>
               /\ HistoryOf(sessionState', k) = trimHistory(<<h.entry>>, cfg.historyWindow)
               /\ marker \in DOMAIN recentRotationBySession'
               /\ recentRotationBySession'[marker] = clock
               /\ enqueued' = enqueued]_vars

\* a rotation with a handoff configured whose transcript could not be read
\* has returned true, and no handoff event was enqueued
C18_Witness ==
  /\ cfg.handoffMode # "none"
  /\ lastRotate.transcript = "error"
  /\ lastRotate.returned
  /\ \E i \in DOMAIN writes : writes[i].id = lastRotate.id
  /\ enqueued = {}

\* C19: a rotation started for an inbound user message (message_received)
\* works on the registry file of the agent the router returned for the
\* message: the path is resolved with the routed agentId, and the registry
\* of no other agent is read or written.
C19_RotationUsesRoutedAgent ==
  \A s \in Slots :
    (Rotating(s) /\ handlers[s].source = "fast")
      => handlers[s].storePath =
           resolveStorePath(AgentOfSession(handlers[s].sessionKey))

\* this step classifies a hard-signal message outside warm-up and cooldown
\* while softConsecutiveSignals is 2 and no soft signal is pending
FirstHardSignal ==
  /\ Classifies
  /\ cfg.softConsecutiveSignals = 2
  /\ ~InWarmup(lastClass') /\ ~lastClass'.cooldown
  /\ lastClass'.pendingBefore = 0
  /\ IsHardSignal(lastClass')

\* handler of the message just classified has called rotateSessionEntry
StartsRotation ==
  \E s \in Slots :
    handlers'[s].id = lastClass'.id /\ handlers'[s].pc = "lockWait"

C21_SoftRotationKeepsSuspects ==
  [][\A s \in Slots :
       (/\ HasWritten(s)
        /\ handlers[s].kind = "rotate-soft"
        /\ handlers'[s].pc = "idle")
         => LET k == handlers[s].sessionKey
            IN /\ HistoryOf(sessionState', k) =
                    trimHistory(PendingEntriesOf(sessionState, k)
                                  \o <<handlers[s].entry>>, cfg.historyWindow)
               /\ PendingEntriesOf(sessionState', k) = <<>>]_vars

\* C25: classifications are started by the message_received hook (and the
\* message_sent hook) only: no message is classified by a
\* before_model_resolve handler, so a user message that reaches both hooks
\* is classified once.
C25_NoFallbackClassification ==
  lastClass.source # "fallback"

\* providers of turns that no user wrote
InternalProviders == {"cron-event", "heartbeat"}

\* C26: a message of an internal provider (cron-event, heartbeat) is ignored
\* for classification: it is never classified, so it creates or changes no
\* SessionState and starts no rotation, whatever the thresholds are.
C26_InternalProvidersIgnored ==
  [][Classifies => lastClass'.provider \notin InternalProviders]_vars

\* C28: jaccardSimilarity(A, B) = jaccardSimilarity(B, A) for all token sets
\* A and B; jaccardSimilarity(A, A) = 1 for every nonempty A; and
\* jaccardSimilarity of two empty sets is 1.
C28_JaccardSymmetricReflexive ==
  pureResult.fn = "jaccardSimilarity" =>
    LET left == pureArgs[1]
        right == pureArgs[2]
    IN /\ pureResult.value = jaccardSimilarity(right, left)
       /\ (left = right /\ left # {}) => pureResult.value = Unit
       /\ (left = {} /\ right = {}) => pureResult.value = Unit

\* a call with two different overlapping sets of different sizes returned
\* a similarity strictly between 0 and 1
C28_Witness ==
  /\ pureResult.fn = "jaccardSimilarity"
  /\ Cardinality(pureArgs[1]) # Cardinality(pureArgs[2])
  /\ pureArgs[1] \cap pureArgs[2] # {}
  /\ pureResult.value > 0 /\ pureResult.value < Unit

\* C29: on a stable decision (the forced stable during cooldown included)
\* the new history is the last historyWindow entries of the old history
\* followed by pendingEntries in arrival order followed by the current
\* entry; pendingEntries becomes empty and pendingSoftSignals becomes 0.
C29_StableMergesPending ==
  [][(Classifies /\ lastClass'.kind = "stable")
       => LET k == lastClass'.sessionKey
          IN /\ k \in DOMAIN sessionState'
             /\ sessionState'[k].history =
                  trimHistory(HistoryOf(sessionState, k)
                                \o PendingEntriesOf(sessionState, k)
                                \o <<lastClass'.entry>>,
                              cfg.historyWindow)
             /\ sessionState'[k].pendingEntries = <<>>
             /\ sessionState'[k].pendingSoftSignals = 0]_vars

\* a stable decision was taken while a suspect entry was buffered, and the
\* history now ends with the buffered entry followed by the current one
C29_Witness ==
  /\ lastClass.kind = "stable"
  /\ lastClass.pendingBefore >= 1
  /\ lastClass.sessionKey \in DOMAIN sessionState
  /\ LET st == sessionState[lastClass.sessionKey]
     IN /\ st.pendingEntries = <<>>
        /\ Len(st.history) >= 2
        /\ st.history[Len(st.history)] = lastClass.entry
        /\ st.history[Len(st.history) - 1] # lastClass.entry

\* C30: a suspect decision leaves history, and so the baseline token union,
\* unchanged: the entry is appended only to pendingEntries, and lastResetAt
\* and the topic centroid are not modified.
C30_SuspectLeavesHistory ==
  [][(Classifies /\ lastClass'.kind = "suspect")
       => LET k == lastClass'.sessionKey
          IN /\ k \in DOMAIN sessionState /\ k \in DOMAIN sessionState'
             /\ sessionState'[k].history = sessionState[k].history
             /\ unionTokens(sessionState'[k].history) =
                  unionTokens(sessionState[k].history)
             /\ sessionState'[k].pendingEntries =
                  trimHistory(Append(sessionState[k].pendingEntries,
                                     lastClass'.entry),
                              cfg.softConsecutiveSignals)
             /\ sessionState'[k].lastResetAt = sessionState[k].lastResetAt
             /\ sessionState'[k].topicCentroid = sessionState[k].topicCentroid]_vars

\* a suspect decision was taken: its entry is the last buffered one and is
\* not in the history
C30_Witness ==
  /\ lastClass.kind = "suspect"
  /\ lastClass.sessionKey \in DOMAIN sessionState
  /\ LET st == sessionState[lastClass.sessionKey]
     IN /\ st.pendingEntries # <<>>
        /\ st.pendingEntries[Len(st.pendingEntries)] = lastClass.entry
        /\ \A i \in DOMAIN st.history : st.history[i] # lastClass.entry
        /\ st.history # <<>>

\* a step of the documented hooks that ran the hook
HookRan(hook) == lastHook'.seq # lastHook.seq /\ lastHook'.hook = hook

StrictAsk == softSuspect.action = "ask" /\ softSuspect.mode = "strict"

C23_SteerConsumedOnce ==
  [][/\ (HookRan("message_received") /\ lastHook'.decision = "suspect"
           /\ softSuspect.action = "ask")
          => /\ runtime'.pendingSteer.armed
             /\ ~runtime'.pendingSteer.injected
             /\ runtime'.pendingSteer.expiresAt = runtime.now + softSuspect.ttl
     /\ HookRan("before_prompt_build")
          => LET live == /\ runtime.pendingSteer.armed
                         /\ runtime.now < runtime.pendingSteer.expiresAt
             IN /\ (live /\ ~runtime.pendingSteer.injected)
                     => /\ lastHook'.prepend = SteerPrompt
                        /\ runtime'.pendingSteer.injected
                /\ (~live \/ runtime.pendingSteer.injected)
                     => lastHook'.prepend = ""]_vars

\* a second opportunity right after the one that consumed the ticket
\* returned nothing
C23_Witness ==
  /\ softSuspect.action = "ask"
  /\ lastHook.hook = "before_prompt_build" /\ lastHook.prepend = ""
  /\ runtime.pendingSteer.armed /\ runtime.pendingSteer.injected
  /\ runtime.now < runtime.pendingSteer.expiresAt

\* C24: outbound agent messages never trigger a rotation: a successful
\* outbound message only updates the topic context (pendingSoftSignals is not
\* incremented and the session is not rotated, even when the text would be a
\* soft or hard signal), and a failed send changes no state at all.
C24_OutboundNeverRotates ==
  [][HookRan("message_sent")
       => /\ runtime'.sessionId = runtime.sessionId
          /\ runtime'.pendingSoftSignals = runtime.pendingSoftSignals
          /\ runtime'.pendingSteer = runtime.pendingSteer
          /\ runtime'.recentRotations = runtime.recentRotations
          /\ ~lastHook'.success
               => runtime' = [runtime EXCEPT !.events = runtime.events + 1]]_vars

\* a successful outbound message whose text would be a hard signal was
\* added to a topic context past warmup, and the session did not rotate
C24_Witness ==
  /\ lastHook.hook = "message_sent" /\ lastHook.success
  /\ lastHook.signal = "hard"
  /\ runtime.historyLen >= 2
  /\ runtime.sessionId = 0

\* C27: at startup a persisted snapshot whose version differs from the
\* expected one is discarded as a whole: a warning is logged and no history,
\* pending state or rotation-dedupe entry is restored.
C27_VersionMismatchDiscarded ==
  [][(HookRan("load") /\ persisted.present
        /\ persisted.version # PersistedVersion)
       => /\ runtime'.warned
          /\ runtime'.historyLen = 0
          /\ runtime'.pendingSoftSignals = 0
          /\ runtime'.recentRotations = 0
          /\ ~runtime'.pendingSteer.armed]_vars

\* a snapshot of another version holding history, pending state and a
\* dedupe entry was found at startup, and the state started empty
C27_Witness ==
  /\ persisted.present /\ persisted.version = 999
  /\ persisted.historyLen > 0 /\ persisted.recentRotations > 0
  /\ lastHook.hook = "load"
  /\ runtime.loaded /\ runtime.warned /\ runtime.historyLen = 0

\* the centroid of session k is the embedding of the entry alone, or is
\* cleared when the entry has no embedding
SeededFrom(map, k, entry) ==
  /\ k \in DOMAIN map
  /\ IF entry.embedding = NoVector
     THEN map[k].topicCentroid = NoVector /\ map[k].topicCount = 0
     ELSE map[k].topicCentroid = entry.embedding /\ map[k].topicCount = 1

RequestsEmbedding(s) == handlers[s].pc = "idle" /\ handlers'[s].pc = "embed"

\* C32: the embedding backend is called for a message only if a backend is
\* configured, the session is neither in warmup nor in cooldown, and either
\* the lexical score >= softScoreThreshold - embeddingTriggerMargin or
\* (novelty >= 0.9 * softNoveltyThreshold and lexicalDistance >= 0.35).
C32_EmbeddingOnlyWhenAmbiguous ==
  [][\A s \in Slots :
       RequestsEmbedding(s)
         => LET h == handlers'[s]
                st == StateOf(h.sessionKey, clock)
            IN /\ cfg.backendAvailable
               /\ Len(st.history) >= cfg.minHistoryMessages
               /\ Cardinality(unionTokens(st.history)) >= cfg.minMeaningfulTokens
               /\ ~(/\ cfg.cooldownMinutes > 0
                    /\ st.lastResetAt # NoTime
                    /\ clock - st.lastResetAt < cfg.cooldownMinutes * 60000)
               /\ \/ h.lexical.score >=
                       cfg.softScoreThreshold - cfg.embeddingTriggerMargin
                  \/ /\ h.lexical.novelty * 10 >= cfg.softNoveltyThreshold * 9
                     /\ h.lexical.lexicalDistance >= 350000]_vars

\* a request to the backend is in flight for a message of a session that is
\* past its warm-up
C32_Witness ==
  \E s \in Slots :
    /\ handlers[s].pc = "embed"
    /\ cfg.backendAvailable
    /\ Cardinality(handlers[s].baselineTokens) >= cfg.minMeaningfulTokens
    /\ handlers[s].lexical.score >=
         cfg.softScoreThreshold - cfg.embeddingTriggerMargin

\* C33: a message whose stripped text is shorter than minSignalChars, or
\* that has fewer than minSignalTokenCount tokens, or whose token entropy is
\* below minSignalEntropy is discarded before it reaches the classifier:
\* every message that was classified is at or above the three floors.
C33_LowSignalDiscarded ==
  lastClass.id # 0 =>
    /\ lastClass.chars >= cfg.minSignalChars
    /\ lastClass.tokenCount >= cfg.minSignalTokenCount
    /\ lastClass.entropy >= cfg.minSignalEntropy

\* C34: when route resolution fails for an inbound message, the message is
\* ignored and no state is mutated: the SessionState map, the
\* rotation-dedupe map and the message-event dedupe cache are as they were
\* before the event, and nothing is written to the registry.
C34_RouteFailureMutatesNothing ==
  [][\A ev \in inputs :
       (~ev.routeOk /\ \E s \in Slots : Start(s, ev))
         => UNCHANGED <<sessionState, recentRotationBySession, recentFastEvents,
                        store, alphaStore, writes>>]_vars

\* registry writes so far for session key k
WritesOf(k) == {i \in DOMAIN writes : writes[i].sessionKey = k}

\* C35: a handoff event for session key k is enqueued only after the
\* registry write of a successful rotation of k has completed and the lock
\* has been released, at most once per rotation, and it is built from k's
\* entry as it was before the rotation; no handoff event is enqueued in a dry
\* run, after a failed rotation, or when the handoff mode is none.
C35_HandoffAfterWrite ==
  [][/\ \A s \in Slots :
          (handlers[s].pc = "write" /\ handlers'[s].pc = "handoff")
            => handlers[s].previousEntry =
                 FileAt(handlers[s].storePath)[handlers[s].storeKey]
     /\ enqueued' # enqueued
          => \E s \in Slots :
               LET h == handlers[s]
               IN /\ HasWritten(s) /\ handlers'[s].pc = "idle"
                  /\ lockHolder # s
                  /\ \E i \in WritesOf(h.sessionKey) : writes[i].id = h.id
                  /\ lastRotate'.id = h.id /\ lastRotate'.returned
                  /\ enqueued' \ enqueued =
                       {[sessionKey |-> h.sessionKey, contextKey |-> h.contentHash,
                         previousSessionId |-> h.previousEntry.sessionId]}
                  /\ h.previousEntry.sessionId #
                       FileAt(h.storePath)[h.storeKey].sessionId
     /\ \A k \in SessionKeys :
          Cardinality({e \in enqueued' : e.sessionKey = k})
            <= Cardinality({i \in DOMAIN writes' : writes'[i].sessionKey = k})
     /\ (cfg.dryRun \/ cfg.handoffMode = "none") => enqueued' = {}
     /\ (lastRotate' # lastRotate /\ ~lastRotate'.returned)
          => enqueued' = enqueued]_vars

\* a handoff event built from the entry that k1 had before its rotation was
\* enqueued after the registry write, with the lock free again
C35_Witness ==
  /\ [sessionKey |-> "k1", contextKey |-> THard, previousSessionId |-> -1]
       \in enqueued
  /\ WritesOf("k1") # {}
  /\ lockHolder = 0
  /\ "k1" \in DOMAIN store /\ store["k1"].sessionId > 0

\* C36: two rotations for different session keys whose entries live in the
\* same registry file, run concurrently, both take effect: each rotation
\* reads the registry inside the lock, so no write puts back a copy that
\* predates another rotation's change, and after both complete the file
\* shows both entries rotated.
C36_NoLostUpdate ==
  \A i \in DOMAIN writes :
    LET file == FileAt(writes[i].storePath)
    IN /\ writes[i].storeKey \in DOMAIN file
       /\ file[writes[i].storeKey].sessionId > 0

\* the rotations of k1 and k2 overlapped (the second was decided before the
\* first wrote), both completed, and the one file shows both entries rotated
C36_Witness ==
  /\ Len(writes) = 2
  /\ writes[1].sessionKey # writes[2].sessionKey
  /\ writes[1].storePath = writes[2].storePath
  /\ writes[2].writesSeen = 0
  /\ \A s \in Slots : handlers[s].pc = "idle"
  /\ store["k1"].sessionId > 0 /\ store["K2"].sessionId > 0
  /\ store["k1"].sessionId # store["K2"].sessionId

RegistryPaths == {MainStorePath, AlphaStorePath}

\* C37: a registry file that is missing or cannot be parsed is read as an
\* empty map and is never written by the rotation path: after a rotation
\* attempt against it the file is as it was found (not created, not
\* overwritten), and the attempt is reported as failed.
C37_MissingRegistryNeverWritten ==
  [][/\ \A s \in Slots :
          (/\ handlers[s].pc = "lockWait"
           /\ handlers'[s].pc # "lockWait"
           /\ FileAt(handlers[s].storePath) = RegistryMissing)
            => /\ handlers'[s].pc = "idle"
               /\ lastRotate'.id = handlers[s].id
               /\ ~lastRotate'.returned
               /\ UNCHANGED <<store, alphaStore, writes>>
     /\ \A p \in RegistryPaths :
          FileAt(p) = RegistryMissing
            => /\ FileAt(p)' = RegistryMissing
               /\ \A i \in DOMAIN writes' : writes'[i].storePath # p]_vars

\* a rotation was attempted against the missing registry of the default
\* agent: it was reported as failed and the file is still missing
C37_Witness ==
  /\ store = RegistryMissing
  /\ lastRotate.id # 0 /\ ~lastRotate.returned /\ ~lastRotate.threw
  /\ lastRotate.id = lastClass.id /\ IsRotate(lastClass.kind)
  /\ \A i \in DOMAIN writes : writes[i].storePath # MainStorePath

\* C38: in every reachable state every tracked session has at most
\* historyWindow history entries and at most softConsecutiveSignals pending
\* entries, 0 <= pendingSoftSignals < softConsecutiveSignals, and as many
\* buffered pending entries as pendingSoftSignals.
C38_SessionStateBounds ==
  \A k \in DOMAIN sessionState :
    /\ Len(sessionState[k].history) <= cfg.historyWindow
    /\ Len(sessionState[k].pendingEntries) <= cfg.softConsecutiveSignals
    /\ 0 <= sessionState[k].pendingSoftSignals
    /\ sessionState[k].pendingSoftSignals < cfg.softConsecutiveSignals
    /\ Len(sessionState[k].pendingEntries) = sessionState[k].pendingSoftSignals

\* a session holds a buffered suspect while its history is full
C38_Witness ==
  \E k \in DOMAIN sessionState :
    /\ sessionState[k].pendingSoftSignals = 1
    /\ Len(sessionState[k].pendingEntries) = 1
    /\ Len(sessionState[k].history) = cfg.historyWindow

\* the sessions that a call of pruneStateMaps deleted
PrunedKeys == KeysOf(pureResult.before) \ KeysOf(pureResult.value)

\* C39 (as amended): after every processed message at most the cap of
\* sessions is tracked; a session idle for longer than the stale TTL is
\* removed at the prune; above the cap the sessions removed are those with
\* the smallest lastSeenAt and no more than the excess; the session whose
\* message was just processed is removed only if its lastSeenAt, taken
\* before the handler suspended, is older than the TTL or no later than
\* that of every session kept.
C39_PruneKeepsCapAndOldestFirst ==
  pureResult.fn = "pruneStateMaps" =>
    LET before == pureResult.before
        after == pureResult.value
        now == pureResult.now
        k == pureResult.key
        freshKeys == {e.key : e \in {before[i] : i \in DOMAIN before}
                                      \cap {x \in {before[i] : i \in DOMAIN before} :
                                              ~IsStale(x, now)}}
    IN /\ Len(after) <= ScaledTrackedCap
       /\ KeysOf(after) \subseteq freshKeys
       /\ \A i \in DOMAIN after : after[i].lastSeenAt = SeenAt(before, after[i].key)
       /\ Len(after) = IF Cardinality(freshKeys) > ScaledTrackedCap
                       THEN ScaledTrackedCap ELSE Cardinality(freshKeys)
       /\ \A d \in PrunedKeys \cap freshKeys, r \in KeysOf(after) :
            SeenAt(before, d) <= SeenAt(before, r)
       /\ k \in PrunedKeys =>
            \/ now - SeenAt(before, k) > STALE_SESSION_STATE_MS
            \/ \A r \in KeysOf(after) : SeenAt(before, k) <= SeenAt(before, r)

\* the cap was exceeded and the session seen first was removed, while the
\* session just processed was kept
C39_Witness ==
  /\ pureResult.fn = "pruneStateMaps"
  /\ Len(pureResult.before) > ScaledTrackedCap
  /\ PrunedKeys # {}
  /\ pureResult.key \notin PrunedKeys
  /\ \A d \in PrunedKeys : ~IsStale([lastSeenAt |-> SeenAt(pureResult.before, d)],
                                    pureResult.now)

\* C39 (as stated): the cap holds, the oldest sessions go first, stale
\* sessions are removed, and the session whose message was just processed is
\* never the one evicted.
C39_JustProcessedNeverEvicted ==
  pureResult.fn = "pruneStateMaps" =>
    /\ Len(pureResult.value) <= ScaledTrackedCap
    /\ \A d \in PrunedKeys, r \in KeysOf(pureResult.value) :
         \/ IsStale([lastSeenAt |-> SeenAt(pureResult.before, d)], pureResult.now)
         \/ SeenAt(pureResult.before, d) <= SeenAt(pureResult.before, r)
    /\ \A i \in DOMAIN pureResult.value : ~IsStale(pureResult.value[i], pureResult.now)
    /\ pureResult.key \notin PrunedKeys

\* C40: for every configuration that resolveConfig can produce, a session
\* that keeps receiving eligible messages with enough distinct tokens
\* eventually has a message decided other than warmup.
C40_EventuallyLeavesWarmup ==
  <>(pureResult.fn = "classifyMessage" /\ pureResult.value # "warmup")

====
